---- MODULE Spec2Model ----
(***************************************************************************)
(* Folunar / AgentContainer: the observe -> decide -> execute closed loop. *)
(* The Observer and the Decision Engine each run asyncio loop tasks on one *)
(* event loop; the Container Manager spawns "docker exec"; the HTTP route  *)
(* layer sits in front of them.  A step of a task is the code that runs    *)
(* between two awaits that really suspend.                                 *)
(* The connection pools and the two-tier cache of src/core are modelled     *)
(* beside them, each under a specification of its own.                     *)
(***************************************************************************)
EXTENDS Integers, Sequences, FiniteSets, Bags, TLC

\* ------------------------------------------------------------------ bounds
\* loop tasks of one component that can be alive at a time
MaxTasks == 2
\* records a history may hold before the model stops starting new cycles
MaxHistory == 2
\* members a connection pool can be initialised with
MaxPoolSize == 2
\* scoped acquisitions of pooled members that can be in progress at a time
MaxAcquirers == 2
\* the last instant of the clock
MaxTime == 2
\* calls of a decorated function that can be in progress at a time
MaxCalls == 2
\* calls of the Container Manager that can be waiting for their engine process
MaxManagerCalls == 1
\* entries the model lets the injection log be given
MaxInjections == 3
\* records of the longest history the Observer has left behind
MaxObserved == 6
\* errors the model lets the Performance Monitor count
MaxErrors == 3
\* chat-completion requests that can be in progress at once
MaxRequests == 2
\* data frames the model lets one streaming response carry
MaxFrames == 3

\* --------------------------------------------------------- Python strings
\* A str is a sequence of one-character strings.
Whitespace == {" ", "\t"}

UpperAlpha == <<"A","B","C","D","E","F","G","H","I","J","K","L","M",
                "N","O","P","Q","R","S","T","U","V","W","X","Y","Z">>
LowerAlpha == <<"a","b","c","d","e","f","g","h","i","j","k","l","m",
                "n","o","p","q","r","s","t","u","v","w","x","y","z">>

\* str.lower() on one character
LowerChar(c) ==
  IF \E i \in 1..26 : UpperAlpha[i] = c
  THEN LowerAlpha[CHOOSE i \in 1..26 : UpperAlpha[i] = c]
  ELSE c

\* str.lower()
Lower(s) == [i \in 1..Len(s) |-> LowerChar(s[i])]

\* str.strip()
Strip(s) ==
  LET keep == {i \in 1..Len(s) : s[i] \notin Whitespace}
  IN IF keep = {} THEN <<>>
     ELSE LET lo == CHOOSE i \in keep : \A j \in keep : i <= j
              hi == CHOOSE i \in keep : \A j \in keep : j <= i
          IN SubSeq(s, lo, hi)

\* sub in s
Contains(s, sub) ==
  \E i \in 1..(Len(s) - Len(sub) + 1) : SubSeq(s, i, i + Len(sub) - 1) = sub

\* c in s, for one character
HasChar(s, c) == \E i \in 1..Len(s) : s[i] = c

\* --------------------------------------------- Python re, the subset in use
\* A pattern is the sequence of its tokens as written in the source: "^" and
\* "$" anchors, an atom (a character, an escaped character, \s, .) with an
\* optional quantifier.
TokQuant(tok) ==
  CASE tok \in {"\\s+"} -> "+"
    [] tok \in {"\\s*", ".*"} -> "*"
    [] tok \in {"3?", "m?"} -> "?"
    [] OTHER -> "1"

\* whether token tok's atom accepts character c, under re.IGNORECASE
TokAccepts(tok, c) ==
  CASE tok \in {"\\s+", "\\s*"} -> c \in Whitespace
    [] tok = ".*" -> c # "\n"
    [] tok = "3?" -> c = "3"
    [] tok = "m?" -> LowerChar(c) = "m"
    [] tok = "\\." -> c = "."
    [] tok = "\\*" -> c = "*"
    [] tok = "\\|" -> c = "|"
    [] OTHER -> LowerChar(c) = LowerChar(tok)

RECURSIVE MatchEnds(_, _, _, _)
\* the positions at which a match of toks[i..] that begins at pos can end
MatchEnds(toks, i, s, pos) ==
  IF i > Len(toks) THEN {pos}
  ELSE LET tok == toks[i]
           ok == pos <= Len(s) /\ TokAccepts(tok, s[pos])
           skip == MatchEnds(toks, i + 1, s, pos)
           one == IF ok THEN MatchEnds(toks, i + 1, s, pos + 1) ELSE {}
           more == IF ok THEN MatchEnds(toks, i, s, pos + 1) ELSE {}
       IN CASE TokQuant(tok) = "1" -> one
            [] TokQuant(tok) = "?" -> skip \cup one
            [] TokQuant(tok) = "*" -> skip \cup more
            [] TokQuant(tok) = "+" -> one \cup more

PatAnchored(p) == Len(p) > 0 /\ p[1] = "^"
PatToEnd(p) == Len(p) > 0 /\ p[Len(p)] = "$"
PatBody(p) ==
  SubSeq(p, IF PatAnchored(p) THEN 2 ELSE 1, IF PatToEnd(p) THEN Len(p) - 1 ELSE Len(p))

\* a match of p in s that begins at pos
MatchesAt(p, s, pos) ==
  \E e \in MatchEnds(PatBody(p), 1, s, pos) : PatToEnd(p) => e = Len(s) + 1

\* re.search(p, s, re.IGNORECASE) is not None
re_search(p, s) ==
  IF PatAnchored(p) THEN MatchesAt(p, s, 1)
  ELSE \E pos \in 1..(Len(s) + 1) : MatchesAt(p, s, pos)

\* re.match(p, s, re.IGNORECASE) is not None
re_match(p, s) == MatchesAt(p, s, 1)

\* ------------------------------------------------------- sample commands
CmdEmpty == <<>>  \* ''
CmdBlank == <<" ", " ">>  \* '  '
CmdPwd == <<"p", "w", "d">>  \* 'pwd'
CmdPwdPadded == <<" ", "p", "w", "d", " ">>  \* ' pwd '
CmdLs == <<"l", "s", " ", "-", "l", "a">>  \* 'ls -la'
CmdLsUpper == <<"L", "S", " ", "-", "l", "a">>  \* 'LS -la'
CmdWhoami == <<"w", "h", "o", "a", "m", "i">>  \* 'whoami'
CmdRmRoot == <<"r", "m", " ", "-", "r", "f", " ", "/">>  \* 'rm -rf /'
CmdRmRootUpper == <<"R", "M", " ", "-", "R", "F", " ", "/">>  \* 'RM -RF /'
CmdReboot == <<"r", "e", "b", "o", "o", "t">>  \* 'reboot'
CmdCurl == <<"c", "u", "r", "l", " ", "x">>  \* 'curl x'
CmdLsParent == <<"l", "s", " ", ".", ".">>  \* 'ls ..'
CmdLsSemi == <<"l", "s", " ", "a", ";", " ", "i", "d">>  \* 'ls a; id'
CmdLsAndPwd == <<"l", "s", " ", "a", " ", "&", "&", " ", "p", "w", "d">>  \* 'ls a && pwd'
CmdLsBg == <<"l", "s", " ", "a", " ", "&", " ", "i", "d">>  \* 'ls a & id'
CmdLsBgAnd == <<"l", "s", " ", "a", " ", "&", " ", "i", "d", " ", "&", "&", " ", "p", "w", "d">>  \* 'ls a & id && pwd'
CmdEchoSubst == <<"e", "c", "h", "o", " ", "$", "(", "i", "d", ")">>  \* 'echo $(id)'
CmdCatPipe == <<"c", "a", "t", " ", "a", " ", "|", " ", "s", "h">>  \* 'cat a | sh'
CmdGitInit == <<"g", "i", "t", " ", "i", "n", "i", "t">>  \* 'git init'
CmdLsTab == <<"l", "s", "\t", "-", "l">>  \* 'ls\t-l'

Commands ==
  {CmdEmpty, CmdBlank, CmdPwd, CmdPwdPadded, CmdLs, CmdLsUpper, CmdWhoami, CmdRmRoot, CmdRmRootUpper, CmdReboot, CmdCurl, CmdLsParent, CmdLsSemi, CmdLsAndPwd, CmdLsBg, CmdLsBgAnd, CmdEchoSubst, CmdCatPipe, CmdGitInit, CmdLsTab}

\* commands made of a head and a tail, for the validator on its own
CommandHeads ==
  {CmdPwd, CmdLs, CmdLsUpper, CmdWhoami, CmdRmRoot, CmdReboot, CmdCurl, CmdGitInit,
   <<"l", "s", " ", "a">>, <<"e", "c", "h", "o", " ", "h", "i">>}
CommandTails ==
  {<<>>, <<" ">>, <<"\n">>, <<" ", ".", ".">>,
   <<" ", "&", " ", "i", "d">>, <<" ", "&", "&", " ", "p", "w", "d">>,
   <<" ", "&", " ", "i", "d", " ", "&", "&", " ", "p", "w", "d">>,
   <<";", " ", "i", "d">>, <<" ", "|", " ", "s", "h">>,
   <<" ", "$", "(", "i", "d", ")">>, <<" ", "U+0060", "i", "d", "U+0060">>}

\* --------------------------------------- decision_engine.py: command rules
dangerous_commands ==
  << <<"r", "m", "\\s+", "-", "r", "f", "\\s+", "/">>,
     <<"r", "m", "\\s+", "-", "r", "f", "\\s+", "\\*">>,
     <<"r", "m", "\\s+", "-", "r", "f", "\\s+", "\\.", "\\.">>,
     <<"f", "o", "r", "m", "a", "t", "\\s+">>,
     <<"m", "k", "f", "s", "\\.">>,
     <<"d", "d", "\\s+", "i", "f", "=">>,
     <<"f", "d", "i", "s", "k">>,
     <<"p", "a", "r", "t", "e", "d">>,
     <<"s", "h", "u", "t", "d", "o", "w", "n">>,
     <<"r", "e", "b", "o", "o", "t">>,
     <<"h", "a", "l", "t">>,
     <<"p", "o", "w", "e", "r", "o", "f", "f">>,
     <<"s", "y", "s", "t", "e", "m", "c", "t", "l", "\\s+", "d", "i", "s", "a", "b", "l", "e">>,
     <<"s", "y", "s", "t", "e", "m", "c", "t", "l", "\\s+", "s", "t", "o", "p">>,
     <<"k", "i", "l", "l", "a", "l", "l">>,
     <<"p", "k", "i", "l", "l", "\\s+", "-", "9">>,
     <<"c", "h", "m", "o", "d", "\\s+", "7", "7", "7">>,
     <<"c", "h", "o", "w", "n", "\\s+", "r", "o", "o", "t">>,
     <<"u", "s", "e", "r", "m", "o", "d">>,
     <<"u", "s", "e", "r", "d", "e", "l">>,
     <<"p", "a", "s", "s", "w", "d">>,
     <<"s", "u", "\\s+">>,
     <<"s", "u", "d", "o", "\\s+">>,
     <<"m", "o", "u", "n", "t">>,
     <<"u", "m", "o", "u", "n", "t">>,
     <<"a", "p", "t", "\\s+", "r", "e", "m", "o", "v", "e">>,
     <<"a", "p", "t", "\\s+", "p", "u", "r", "g", "e">>,
     <<"p", "i", "p", "\\s+", "u", "n", "i", "n", "s", "t", "a", "l", "l">>,
     <<"n", "p", "m", "\\s+", "u", "n", "i", "n", "s", "t", "a", "l", "l">>,
     <<"y", "u", "m", "\\s+", "r", "e", "m", "o", "v", "e">>,
     <<"w", "g", "e", "t", "\\s+", ".*", "\\|", "\\s*", "s", "h">>,
     <<"c", "u", "r", "l", "\\s+", ".*", "\\|", "\\s*", "s", "h">>,
     <<"e", "v", "a", "l", "\\s+">>,
     <<"e", "x", "e", "c", "\\s+">>,
     <<"b", "a", "s", "h", "\\s+", "-", "c">>,
     <<"s", "h", "\\s+", "-", "c">> >>

allowed_command_patterns ==
  << <<"^", "l", "s", "\\s+">>,
     <<"^", "p", "w", "d", "$">>,
     <<"^", "c", "d", "\\s+">>,
     <<"^", "c", "a", "t", "\\s+">>,
     <<"^", "h", "e", "a", "d", "\\s+">>,
     <<"^", "t", "a", "i", "l", "\\s+">>,
     <<"^", "g", "r", "e", "p", "\\s+">>,
     <<"^", "f", "i", "n", "d", "\\s+">>,
     <<"^", "p", "s", "\\s+">>,
     <<"^", "t", "o", "p", "$">>,
     <<"^", "h", "t", "o", "p", "$">>,
     <<"^", "d", "f", "\\s+">>,
     <<"^", "d", "u", "\\s+">>,
     <<"^", "f", "r", "e", "e", "$">>,
     <<"^", "u", "p", "t", "i", "m", "e", "$">>,
     <<"^", "w", "h", "o", "a", "m", "i", "$">>,
     <<"^", "i", "d", "$">>,
     <<"^", "d", "a", "t", "e", "$">>,
     <<"^", "e", "c", "h", "o", "\\s+">>,
     <<"^", "m", "k", "d", "i", "r", "\\s+">>,
     <<"^", "t", "o", "u", "c", "h", "\\s+">>,
     <<"^", "c", "p", "\\s+">>,
     <<"^", "m", "v", "\\s+">>,
     <<"^", "p", "y", "t", "h", "o", "n", "3?", "\\s+">>,
     <<"^", "n", "o", "d", "e", "\\s+">>,
     <<"^", "n", "p", "m", "\\s+", "r", "u", "n">>,
     <<"^", "g", "i", "t", "\\s+">>,
     <<"^", "v", "i", "m?", "\\s+">>,
     <<"^", "n", "a", "n", "o", "\\s+">>,
     <<"^", "l", "e", "s", "s", "\\s+">>,
     <<"^", "m", "o", "r", "e", "\\s+">>,
     <<"^", "w", "c", "\\s+">>,
     <<"^", "s", "o", "r", "t", "\\s+">>,
     <<"^", "u", "n", "i", "q", "\\s+">>,
     <<"^", "c", "u", "t", "\\s+">>,
     <<"^", "a", "w", "k", "\\s+">>,
     <<"^", "s", "e", "d", "\\s+">> >>

\* the backquote character (U+0060), which a string of this language cannot hold
Backquote == "U+0060"

dangerous_chars == <<";", "&", "|", Backquote, "$", "(", ")">>

\* DecisionEngine._validate_command: [ok, why]
_validate_command(command) ==
  IF command = <<>> \/ Strip(command) = <<>>
  THEN [ok |-> TRUE, why |-> "empty"]
  ELSE LET cmd == Strip(command)
       IN IF \E i \in 1..Len(dangerous_commands) : re_search(dangerous_commands[i], cmd)
          THEN [ok |-> FALSE, why |-> "dangerous"]
          ELSE IF ~(\E i \in 1..Len(allowed_command_patterns) :
                       re_match(allowed_command_patterns[i], cmd))
          THEN [ok |-> FALSE, why |-> "not_allowed"]
          ELSE IF Contains(cmd, <<".", ".">>)
          THEN [ok |-> FALSE, why |-> "path_traversal"]
          ELSE IF \E i \in 1..Len(dangerous_chars) :
                    /\ HasChar(cmd, dangerous_chars[i])
                    /\ ~(dangerous_chars[i] = "&" /\ Contains(cmd, <<"&", "&">>))
          THEN [ok |-> FALSE, why |-> "dangerous_char"]
          ELSE [ok |-> TRUE, why |-> "passed"]

\* _validate_command on each sample command, computed once
ValidateTable == [c \in Commands |-> _validate_command(c)]

\* _validate_command on each composed command, computed once
ComposedCommands == {head \o tail : head \in CommandHeads, tail \in CommandTails}
ComposedValidateTable == [c \in ComposedCommands |-> _validate_command(c)]

\* ------------------------------------- validation.py: ContainerExecRequest
MaxCommandLength == 1000

request_dangerous_commands ==
  << <<"r", "m", " ", "-", "r", "f">>, <<"r", "m", "d", "i", "r">>, <<"d", "e", "l">>,
     <<"f", "o", "r", "m", "a", "t">>, <<"f", "d", "i", "s", "k">>, <<"m", "k", "f", "s">>,
     <<"s", "h", "u", "t", "d", "o", "w", "n">>, <<"r", "e", "b", "o", "o", "t">>,
     <<"h", "a", "l", "t">>, <<"p", "o", "w", "e", "r", "o", "f", "f">>, <<"i", "n", "i", "t">>,
     <<"s", "y", "s", "t", "e", "m", "c", "t", "l">>, <<"s", "e", "r", "v", "i", "c", "e">>,
     <<"k", "i", "l", "l", "a", "l", "l">>, <<"p", "k", "i", "l", "l">> >>

\* validate_command without its check for injection characters
validate_command_substrings_only(v) ==
  /\ Len(v) >= 1
  /\ Len(v) <= MaxCommandLength
  /\ \A i \in DOMAIN request_dangerous_commands :
       ~Contains(Lower(v), request_dangerous_commands[i])

\* ContainerExecRequest(command=v) is constructed without a validation error
validate_command(v) ==
  /\ Len(v) >= 1
  /\ Len(v) <= MaxCommandLength
  /\ ~(\E i \in 1..Len(request_dangerous_commands) :
         Contains(Lower(v), request_dangerous_commands[i]))
  /\ ~(\E i \in 1..Len(dangerous_chars) : HasChar(v, dangerous_chars[i]))

\* validate_command on each sample command, computed once
RequestValidTable == [c \in Commands |-> validate_command(c)]

\* ---------------------------------------------------------------- state
VARIABLES
  obs_is_running,   \* Observer.is_running
  observations,     \* Observer.observations
  obsTask,          \* the tasks asyncio.create_task(_monitoring_loop()) made
  de_is_running,    \* DecisionEngine.is_running
  decisions,        \* DecisionEngine.decisions
  deTask,           \* the tasks asyncio.create_task(_decision_loop()) made
  exec_call,        \* the call of ContainerManager.exec_command the latest step made
  engine_spawn,     \* the "docker exec" the latest step asked the engine to spawn
  audit_enabled,    \* AuditLogger.enabled
  pool_initialized,          \* ConnectionPoolManager._initialized
  docker_pool_enabled,       \* ConnectionPoolManager.docker_pool_enabled
  docker_clients,            \* ConnectionPoolManager.docker_clients
  docker_available_clients,  \* ConnectionPoolManager.docker_available_clients
  http_sessions,             \* ConnectionPoolManager.http_sessions
  http_available_sessions,   \* ConnectionPoolManager.http_available_sessions
  acquisitions,              \* the "async with" scopes on a pool that are in progress
  now,              \* time.time()
  redis_enabled,    \* CacheManager.redis_enabled and CacheManager.redis_client
  memory_cache,     \* CacheManager.memory_cache
  redis_store,      \* the keys the Redis server holds
  latest_set,       \* per key, what the latest set or delete of it asked for
  cachedCalls,      \* the calls of a decorated function that are in progress
  pm_is_monitoring, \* PerformanceMonitor.is_monitoring
  pm_monitor_task,  \* PerformanceMonitor.monitor_task
  pm_tasks,         \* the tasks asyncio.create_task(_monitor_loop()) made
  pm_stops,         \* the stop_monitoring calls suspended at "await self.monitor_task"
  response_times,   \* PerformanceMonitor.response_times: the durations, oldest first
  cpu_usage,        \* PerformanceMonitor.cpu_usage: the percentages sampled
  memory_usage,     \* PerformanceMonitor.memory_usage: the percentages sampled
  error_counts,     \* PerformanceMonitor.error_counts: the sum of its values
  cm_connection_pool, \* whether ContainerManager.connection_pool is set
  cm_configured,    \* which of the configured environment, volumes and ports are not empty
  cm_calls,         \* the ContainerManager calls waiting for their engine process
  engine_command,   \* the docker command the latest ContainerManager step spawned
  components,       \* AppInitializer.components: the names it holds
  init_pc,          \* the step of initialize_components that runs next
  init_status,      \* where the application is: starting, complete, failed, shut_down
  cleaned,          \* the components whose stop or close has run to completion
  sweep_tasks,      \* the tasks asyncio.create_task(_cleanup_memory_cache()) made, all alive
  wi_enabled,       \* WhisperInjectionManager.enabled
  wi_is_running,    \* WhisperInjectionManager.is_running
  schedule_jobs,    \* the jobs the schedule module holds
  wi_threads,       \* the threads start_injection made that have not exited
  wi_handler,       \* what the event-loop thread is doing inside the manager
  vocabulary,       \* WhisperInjectionManager.vocabulary
  vocabulary_file,  \* the vocabulary the vocabulary file holds
  injection_logs,   \* WhisperInjectionManager.injection_logs
  log_file,         \* the entries the log file holds
  max_log_entries,  \* WhisperInjectionManager.max_log_entries
  log_ops,          \* per thread, where it is inside a mutation of the log
  wi_appended,      \* the number of entries appended to the log so far
  wi_cleared,       \* the number of entries appended before the latest clear_logs
  exception_handlers, \* per exception class, the handler registered with the application
  chat_requests,    \* per call of chat_completions in progress, its arguments, locals and place
  chat_cache,       \* what cache_manager holds under the chat-completion keys
  sse,              \* the streaming response being sent: whether it is open, and its frames
  last              \* the operation of the latest step, its input and what it returned

vars == <<obs_is_running, observations, obsTask, de_is_running, decisions, deTask,
          exec_call, engine_spawn, audit_enabled,
          pool_initialized, docker_pool_enabled, docker_clients, docker_available_clients,
          http_sessions, http_available_sessions, acquisitions,
          now, redis_enabled, memory_cache, redis_store, latest_set, cachedCalls,
          pm_is_monitoring, pm_monitor_task, pm_tasks, pm_stops,
          response_times, cpu_usage, memory_usage, error_counts,
          cm_connection_pool, cm_configured, cm_calls, engine_command,
          components, init_pc, init_status, cleaned, sweep_tasks,
          wi_enabled, wi_is_running, schedule_jobs, wi_threads, wi_handler,
          vocabulary, vocabulary_file, injection_logs, log_file, max_log_entries,
          log_ops, wi_appended, wi_cleared, exception_handlers,
          chat_requests, chat_cache, sse, last>>

observerVars == <<obs_is_running, observations, obsTask>>
decisionVars == <<de_is_running, decisions, deTask>>
containerVars == <<exec_call, engine_spawn>>
poolVars == <<pool_initialized, docker_pool_enabled, docker_clients, docker_available_clients,
              http_sessions, http_available_sessions, acquisitions>>
cacheVars == <<now, redis_enabled, memory_cache, redis_store, latest_set, cachedCalls>>
monitorVars == <<pm_is_monitoring, pm_monitor_task, pm_tasks, pm_stops>>
metricsVars == <<response_times, cpu_usage, memory_usage, error_counts>>
\* the components of src/core and src/ that the loops above do not touch
managerVars == <<cm_connection_pool, cm_configured, cm_calls, engine_command>>
initVars == <<components, init_pc, init_status, cleaned, sweep_tasks>>
schedulerVars == <<wi_enabled, wi_is_running, schedule_jobs, wi_threads, wi_handler>>
vocabularyVars == <<vocabulary, vocabulary_file>>
logVars == <<injection_logs, log_file, max_log_entries, log_ops, wi_appended, wi_cleared>>
whisperVars == <<schedulerVars, vocabularyVars, logVars>>
\* the FastAPI application and the requests it is serving
chatVars == <<chat_requests, chat_cache, sse>>
webVars == <<exception_handlers, chatVars>>
svcVars == <<monitorVars, metricsVars, managerVars, initVars, whisperVars, webVars>>

\* The loop tasks of a component.  The Task asyncio.create_task returns is
\* dropped by the caller, so a task is known only by where it is suspended:
\* each component keeps a bag of task states.
NoDecision == [reasoning |-> "none", command |-> <<>>, is_str |-> TRUE, raw_response |-> FALSE]
TaskAt(pc) == [pc |-> pc, decision |-> NoDecision, nobs |-> 0]
NoTasks == EmptyBag
\* asyncio.create_task(coroutine): the new task waits for its first step
Spawn(tasks) == tasks (+) SetToBag({TaskAt("ready")})
\* a task runs from one suspension to the next, or returns
Move(tasks, from, to) == (tasks (-) SetToBag({from})) (+) SetToBag({to})
Return(tasks, from) == tasks (-) SetToBag({from})
AliveTasks(tasks) == BagCardinality(tasks)
\* a task suspended inside a cycle (at an await of an outbound call)
InCycle(task) == task.pc \in {"await_vision", "await_model", "await_exec"}
CyclesInProgress(tasks) ==
  BagCardinality([task \in {x \in BagToSet(tasks) : InCycle(x)} |-> tasks[task]])

\* no call, and the call with a command
NoCall == [called |-> FALSE, command |-> <<>>]
Call(command) == [called |-> TRUE, command |-> command]
ContainerIdle == exec_call' = NoCall /\ engine_spawn' = NoCall

Step(op, arg, ret) == [op |-> op, arg |-> arg, ret |-> ret]

\* s[-limit:] of a Python list
LastSlice(s, limit) ==
  IF limit > 0 THEN SubSeq(s, IF Len(s) > limit THEN Len(s) - limit + 1 ELSE 1, Len(s))
  ELSE IF limit = 0 THEN s
  ELSE SubSeq(s, IF -limit < Len(s) THEN -limit + 1 ELSE Len(s) + 1, Len(s))

\* ------------------------------------------------------------- observer.py
\* the records _perform_observation appends
Observation(analysis) == [kind |-> "observation", analysis |-> analysis, error |-> "none"]
FailedObservation(error) == [kind |-> "failed", analysis |-> "none", error |-> error]

\* Observer.get_recent_observations
get_recent_observations(limit) ==
  IF observations # <<>> THEN LastSlice(observations, limit) ELSE <<>>

\* Observer.start_monitoring: its effect, and the value it returns
start_monitoring ==
  /\ obs_is_running \/ AliveTasks(obsTask) < MaxTasks
  /\ IF obs_is_running
     THEN UNCHANGED <<obs_is_running, obsTask>>
     ELSE /\ obs_is_running' = TRUE
          /\ obsTask' = Spawn(obsTask)
  /\ UNCHANGED observations
start_monitoring_returns == ~obs_is_running

\* Observer.stop_monitoring: its effect, and the value it returns
stop_monitoring ==
  /\ obs_is_running' = FALSE
  /\ UNCHANGED <<observations, obsTask>>
stop_monitoring_returns == obs_is_running

\* what a step of the Observer leaves alone
ObserverFrame ==
  /\ ContainerIdle
  /\ UNCHANGED <<decisionVars, audit_enabled, poolVars, cacheVars, svcVars>>

\* a caller in the process awaits observer.start_monitoring()
StartMonitoring ==
  /\ start_monitoring
  /\ last' = Step("start_monitoring", "none", start_monitoring_returns)
  /\ ObserverFrame

\* a caller in the process awaits observer.stop_monitoring()
StopMonitoring ==
  /\ stop_monitoring
  /\ last' = Step("stop_monitoring", "none", stop_monitoring_returns)
  /\ ObserverFrame

\* Observer.clear_observation_history
clear_observation_history ==
  /\ observations' = <<>>
  /\ last' = Step("clear_observation_history", "none", "none")
  /\ UNCHANGED <<obs_is_running, obsTask>>
  /\ ObserverFrame

\* the except clause of _perform_observation when the loop ends with it
observation_failed_loop_ends(task, error) ==
  /\ observations' = Append(observations, FailedObservation(error))
  /\ obsTask' = Return(obsTask, task)

\* the except clause of _perform_observation: the failed record is appended,
\* the cycle returns normally and _monitoring_loop sleeps
observation_failed(task, error) ==
  /\ observations' = Append(observations, FailedObservation(error))
  /\ obsTask' = Move(obsTask, task, TaskAt("sleep"))

\* what the screen capture and the image read of one cycle can do
CaptureOutcomes == {"captured", "screenshot_raises", "read_raises"}

\* Observer._monitoring_loop from its start, or from the end of its sleep, up to
\* the next await that suspends: the while test and, when running, the part of
\* _perform_observation before the vision call
MonitoringLoopStep(task, capture) ==
  /\ BagIn(task, obsTask)
  /\ task.pc \in {"ready", "sleep"}
  /\ obs_is_running => Len(observations) + CyclesInProgress(obsTask) < MaxHistory
  /\ IF ~obs_is_running
     THEN /\ obsTask' = Return(obsTask, task)
          /\ UNCHANGED observations
          /\ last' = Step("_monitoring_loop", "exit", "none")
     ELSE /\ last' = Step("_monitoring_loop", capture, "none")
          /\ CASE capture = "screenshot_raises" ->
                    \* _take_screenshot re-raises; _perform_observation records it
                    observation_failed(task, "screenshot")
               [] capture = "read_raises" ->
                    \* _analyze_screenshot catches it and returns {"error": ...}
                    /\ observations' = Append(observations, Observation("error"))
                    /\ obsTask' = Move(obsTask, task, TaskAt("sleep"))
               [] capture = "captured" ->
                    /\ obsTask' = Move(obsTask, task, TaskAt("await_vision"))
                    /\ UNCHANGED observations
  /\ UNCHANGED obs_is_running
  /\ ObserverFrame

VisionOutcomes == {"answered", "raises"}

\* the vision call returns or raises: the rest of _analyze_screenshot and of
\* _perform_observation, then the loop's sleep
VisionReply(task, outcome) ==
  /\ BagIn(task, obsTask)
  /\ task.pc = "await_vision"
  /\ observations' =
       Append(observations, Observation(IF outcome = "answered" THEN "ok" ELSE "error"))
  /\ obsTask' = Move(obsTask, task, TaskAt("sleep"))
  /\ last' = Step("vision_reply", outcome, "none")
  /\ UNCHANGED obs_is_running
  /\ ObserverFrame

ObserverNext ==
  \/ StartMonitoring
  \/ StopMonitoring
  \/ clear_observation_history
  \/ \E task \in BagToSet(obsTask), capture \in CaptureOutcomes :
       MonitoringLoopStep(task, capture)
  \/ \E task \in BagToSet(obsTask), outcome \in VisionOutcomes : VisionReply(task, outcome)

\* ----------------------------------------------------- container_manager.py
\* how the engine process of a "docker exec" can end
EngineOutcomes == {"exit_0", "exit_nonzero", "timeout", "spawn_error"}

\* the dict ContainerManager.exec_command returns
exec_result(outcome) == [success |-> outcome = "exit_0", outcome |-> outcome]

\* ContainerManager.exec_command(command) up to its first await: the engine is
\* asked to spawn ["docker", "exec", name] + command.split()
exec_command_called(command) ==
  /\ exec_call' = Call(command)
  /\ engine_spawn' = Call(command)

\* a caller in the process awaits container_manager.exec_command(command)
exec_command(command, outcome) ==
  /\ exec_command_called(command)
  /\ last' = Step("exec_command", command, exec_result(outcome))
  /\ UNCHANGED <<observerVars, decisionVars, audit_enabled, poolVars, cacheVars, svcVars>>

ContainerNext ==
  \E command \in Commands, outcome \in EngineOutcomes : exec_command(command, outcome)

\* ------------------------------------------------------- decision_engine.py
\* what the decision model can answer: the call raises, the text is not JSON,
\* the JSON is not an object, or it is an object whose "command" is absent, a
\* string, or a value that is not a string (a number, a list)
ModelCommands == {CmdBlank, CmdPwdPadded, CmdRmRoot}

ModelReplies ==
  [kind : {"raises", "not_json", "not_object", "no_command", "not_string"}, command : {<<>>}]
    \cup [kind : {"string"}, command : ModelCommands]

NoResult == [success |-> FALSE, tag |-> "absent", command |-> <<>>]
Result(success, tag, command) == [success |-> success, tag |-> tag, command |-> command]

\* the dict _generate_decision returns for a reply; "not_string" stands for a
\* truthy command that has no strip()
_generate_decision(reply) ==
  CASE reply.kind = "raises" ->
         [reasoning |-> "exception", command |-> <<>>, is_str |-> TRUE, raw_response |-> FALSE]
    [] reply.kind = "not_json" ->
         [reasoning |-> "json_error", command |-> <<>>, is_str |-> TRUE, raw_response |-> TRUE]
    [] reply.kind = "not_object" ->
         \* the ValueError raised for it is no JSONDecodeError: the outer handler
         [reasoning |-> "exception", command |-> <<>>, is_str |-> TRUE, raw_response |-> FALSE]
    [] reply.kind = "no_command" ->
         [reasoning |-> "model", command |-> <<>>, is_str |-> TRUE, raw_response |-> FALSE]
    [] reply.kind = "not_string" ->
         [reasoning |-> "model", command |-> <<>>, is_str |-> FALSE, raw_response |-> FALSE]
    [] reply.kind = "string" ->
         [reasoning |-> "model", command |-> reply.command, is_str |-> TRUE, raw_response |-> FALSE]

\* decision.get('command') is truthy
HasCommand(decision) == ~decision.is_str \/ decision.command # <<>>

\* _execute_decision raises (AttributeError: no strip()) before its own try
ExecuteRaises(decision) == ~decision.is_str

\* _execute_decision with the call of _validate_command left out
_execute_decision_unvalidated(decision) ==
  LET command == Strip(decision.command)
  IN IF command = <<>> THEN Result(TRUE, "nothing_to_run", <<>>) ELSE NoResult

\* _execute_decision returns without calling exec_command: the result, or
\* NoResult when it goes on to call exec_command
_execute_decision_early(decision) ==
  LET command == Strip(decision.command)
  IN IF command = <<>> THEN Result(TRUE, "nothing_to_run", <<>>)
     ELSE IF ~ValidateTable[command].ok THEN Result(FALSE, "validation_failed", command)
     ELSE NoResult

\* _execute_decision reporting a failure whatever exec_command returned
_execute_decision_late_always_failed(command, outcome) ==
  [success |-> FALSE, tag |-> "executed", command |-> command]

\* _execute_decision after exec_command returned
_execute_decision_late(command, outcome) ==
  Result(exec_result(outcome).success, "executed", command)

\* the records _perform_decision_cycle appends
DecisionRecord(nobs, decision, result) ==
  [kind |-> "decision", nobs |-> nobs, decision |-> decision, execution_result |-> result,
   error |-> "none"]
FailedDecision(error) ==
  [kind |-> "failed", nobs |-> 0, decision |-> NoDecision, execution_result |-> NoResult,
   error |-> error]

\* DecisionEngine.get_recent_decisions
get_recent_decisions(limit) ==
  IF decisions # <<>> THEN LastSlice(decisions, limit) ELSE <<>>

\* DecisionEngine.start_decision_loop: its effect, and the value it returns
start_decision_loop ==
  /\ de_is_running \/ AliveTasks(deTask) < MaxTasks
  /\ IF de_is_running
     THEN UNCHANGED <<de_is_running, deTask>>
     ELSE /\ de_is_running' = TRUE
          /\ deTask' = Spawn(deTask)
  /\ UNCHANGED decisions
start_decision_loop_returns == ~de_is_running

\* DecisionEngine.stop_decision_loop: its effect, and the value it returns
stop_decision_loop ==
  /\ de_is_running' = FALSE
  /\ UNCHANGED <<decisions, deTask>>
stop_decision_loop_returns == de_is_running

\* what a step of the Decision Engine leaves alone
DecisionFrame == UNCHANGED <<observerVars, audit_enabled, poolVars, cacheVars, svcVars>>

\* a caller in the process awaits decision_engine.start_decision_loop()
StartDecisionLoop ==
  /\ start_decision_loop
  /\ ContainerIdle
  /\ last' = Step("start_decision_loop", "none", start_decision_loop_returns)
  /\ DecisionFrame

\* a caller in the process awaits decision_engine.stop_decision_loop()
StopDecisionLoop ==
  /\ stop_decision_loop
  /\ ContainerIdle
  /\ last' = Step("stop_decision_loop", "none", stop_decision_loop_returns)
  /\ DecisionFrame

\* DecisionEngine.clear_decision_history
clear_decision_history ==
  /\ decisions' = <<>>
  /\ ContainerIdle
  /\ last' = Step("clear_decision_history", "none", "none")
  /\ UNCHANGED <<de_is_running, deTask>>
  /\ DecisionFrame

\* _decision_loop without the early return of _perform_decision_cycle on an
\* empty observation list
DecisionLoopStep_no_skip(task) ==
  /\ BagIn(task, deTask)
  /\ task.pc \in {"ready", "sleep"}
  /\ de_is_running => Len(decisions) + CyclesInProgress(deTask) < MaxHistory
  /\ IF ~de_is_running
     THEN /\ deTask' = Return(deTask, task)
          /\ last' = Step("_decision_loop", "exit", "none")
     ELSE /\ deTask' = Move(deTask, task, [TaskAt("await_model") EXCEPT
                                               !.nobs = Len(get_recent_observations(5))])
          /\ last' = Step("_decision_loop", "cycle", "none")
  /\ ContainerIdle
  /\ UNCHANGED <<de_is_running, decisions>>
  /\ DecisionFrame

\* DecisionEngine._decision_loop from its start, or from the end of its sleep,
\* up to the next await that suspends: the while test and, when running, step 1
\* of _perform_decision_cycle and the part of _generate_decision before the call
DecisionLoopStep(task) ==
  LET recent_observations == get_recent_observations(5)
  IN
  /\ BagIn(task, deTask)
  /\ task.pc \in {"ready", "sleep"}
  /\ (de_is_running /\ recent_observations # <<>>)
       => Len(decisions) + CyclesInProgress(deTask) < MaxHistory
  /\ IF ~de_is_running
     THEN /\ deTask' = Return(deTask, task)
          /\ last' = Step("_decision_loop", "exit", "none")
     ELSE IF recent_observations = <<>>
     THEN /\ deTask' = Move(deTask, task, TaskAt("sleep"))
          /\ last' = Step("_decision_loop", "skip", "none")
     ELSE /\ deTask' = Move(deTask, task, [TaskAt("await_model") EXCEPT
                                               !.nobs = Len(recent_observations)])
          /\ last' = Step("_decision_loop", "cycle", "none")
  /\ ContainerIdle
  /\ UNCHANGED <<de_is_running, decisions>>
  /\ DecisionFrame

\* the except clause of _perform_decision_cycle when the loop ends with it
cycle_failed_loop_ends(task, error) ==
  /\ decisions' = Append(decisions, FailedDecision(error))
  /\ deTask' = Return(deTask, task)

\* the except clause of _perform_decision_cycle: the failed record is appended,
\* the cycle returns normally and _decision_loop sleeps
cycle_failed(task, error) ==
  /\ decisions' = Append(decisions, FailedDecision(error))
  /\ deTask' = Move(deTask, task, TaskAt("sleep"))

\* the decision model's call returns or raises: the rest of _generate_decision,
\* then steps 3 to 5 of _perform_decision_cycle up to the call of exec_command,
\* or to the loop's sleep when no command is run
ModelReply(task, reply) ==
  LET decision == _generate_decision(reply)
      early == _execute_decision_early(decision)
  IN
  /\ BagIn(task, deTask)
  /\ task.pc = "await_model"
  /\ last' = Step("model_reply", reply, "none")
  /\ IF ~HasCommand(decision)
     THEN /\ decisions' = Append(decisions,
                 DecisionRecord(task.nobs, decision, Result(TRUE, "nothing_to_run", <<>>)))
          /\ deTask' = Move(deTask, task, TaskAt("sleep"))
          /\ ContainerIdle
     ELSE IF ExecuteRaises(decision)
     THEN /\ cycle_failed(task, "AttributeError")
          /\ ContainerIdle
     ELSE IF early # NoResult
     THEN /\ decisions' = Append(decisions, DecisionRecord(task.nobs, decision, early))
          /\ deTask' = Move(deTask, task, TaskAt("sleep"))
          /\ ContainerIdle
     ELSE /\ exec_command_called(Strip(decision.command))
          /\ deTask' = Move(deTask, task, [task EXCEPT !.pc = "await_exec", !.decision = decision])
          /\ UNCHANGED decisions
  /\ UNCHANGED de_is_running
  /\ DecisionFrame

\* exec_command returns to _execute_decision: the record is appended and the
\* loop sleeps
ExecReturn(task, outcome) ==
  LET decision == task.decision
  IN
  /\ BagIn(task, deTask)
  /\ task.pc = "await_exec"
  /\ decisions' = Append(decisions, DecisionRecord(task.nobs, decision,
                          _execute_decision_late(Strip(decision.command), outcome)))
  /\ deTask' = Move(deTask, task, TaskAt("sleep"))
  /\ last' = Step("exec_return", outcome, "none")
  /\ ContainerIdle
  /\ UNCHANGED de_is_running
  /\ DecisionFrame

\* observations the caller of manual_decision can pass: None, [], one record
NotGiven == [given |-> FALSE, list |-> <<>>]
ManualArgs ==
  {NotGiven, [given |-> TRUE, list |-> <<>>], [given |-> TRUE, list |-> <<Observation("ok")>>]}

\* the observations manual_decision works on
observations_for_observer_only(arg) == get_recent_observations(5)
observations_for(arg) == IF arg.given THEN arg.list ELSE get_recent_observations(5)

\* the call as the caller made it and the decision model answered it
NoReply == [kind |-> "not_called", command |-> <<>>]
\* (prompted: the observations _generate_decision was called with)
ManualCall(arg, reply, prompted) == [observations |-> arg, reply |-> reply, prompted |-> prompted]

\* _execute_decision reaches exec_command
RunsCommand(decision) ==
  /\ HasCommand(decision)
  /\ ~ExecuteRaises(decision)
  /\ _execute_decision_early(decision) = NoResult

\* what the engine can answer to the exec_command a reply leads to
ExecOutcomesOf(reply) ==
  IF RunsCommand(_generate_decision(reply)) THEN EngineOutcomes ELSE {"not_run"}

ManualResult(success, error, decision, result, used) ==
  [success |-> success, error |-> error, decision |-> decision,
   execution_result |-> result, observations_used |-> used]

\* DecisionEngine.manual_decision, whole: it reads the observer once and writes
\* nothing of the engine, so its two awaits are taken in one step
manual_decision(arg, reply, outcome) ==
  LET used == observations_for(arg)
      decision == _generate_decision(reply)
      early == _execute_decision_early(decision)
      command == Strip(decision.command)
  IN
  /\ IF used = <<>>
     THEN /\ ContainerIdle
          /\ last' = Step("manual_decision", ManualCall(arg, NoReply, <<>>),
                          ManualResult(FALSE, "no_observations", NoDecision, NoResult, 0))
     ELSE IF ~HasCommand(decision)
     THEN /\ ContainerIdle
          /\ last' = Step("manual_decision", ManualCall(arg, reply, used),
                          ManualResult(TRUE, "none", decision, NoResult, Len(used)))
     ELSE IF ExecuteRaises(decision)
     THEN /\ ContainerIdle
          /\ last' = Step("manual_decision", ManualCall(arg, reply, used),
                          ManualResult(FALSE, "AttributeError", NoDecision, NoResult, 0))
     ELSE IF early # NoResult
     THEN /\ ContainerIdle
          /\ last' = Step("manual_decision", ManualCall(arg, reply, used),
                          ManualResult(TRUE, "none", decision, early, Len(used)))
     ELSE /\ exec_command_called(command)
          /\ last' = Step("manual_decision", ManualCall(arg, reply, used),
                          ManualResult(TRUE, "none", decision,
                                       _execute_decision_late(command, outcome), Len(used)))
  /\ UNCHANGED decisionVars
  /\ DecisionFrame

DecisionNext ==
  \/ StartDecisionLoop
  \/ StopDecisionLoop
  \/ clear_decision_history
  \/ \E task \in BagToSet(deTask) : DecisionLoopStep(task)
  \/ \E task \in BagToSet(deTask), reply \in ModelReplies : ModelReply(task, reply)
  \/ \E task \in BagToSet(deTask), outcome \in EngineOutcomes : ExecReturn(task, outcome)
  \* POST /api/decision/manual calls manual_decision()
  \/ \E reply \in ModelReplies : \E outcome \in ExecOutcomesOf(reply) :
       manual_decision(NotGiven, reply, outcome)

\* ------------------------------------------------- auth.py and the routes
\* what a request carries: the Authorization header (no bearer token, a token
\* verify_token rejects, a token it accepts) and the query string
Authorizations == {"no_token", "bad_token", "good_token"}
QueryUsers == {"absent", "given"}

\* AuthManager.verify_token: the username, or None
verify_token(token) == IF token = "good_token" THEN "admin" ELSE "None"

\* the value FastAPI binds to a handler parameter declared
\* "current_user: str = require_auth": the parameter is an optional query
\* parameter whose default is the function object; the function is never called
current_user(query_user) ==
  IF query_user = "given" THEN "query_value" ELSE "function_require_auth"

\* AuditLogger.log_event raises: json.dumps(log_data) meets the function object
log_event_raises(user) == audit_enabled /\ user = "function_require_auth"

Request(route, authorization, query_user, command) ==
  [route |-> route, authorization |-> authorization, query_user |-> query_user,
   command |-> command]
Response(status, reached) == [status |-> status, reached_manager |-> reached]

\* POST /api/container/exec
exec_in_container(authorization, query_user, command, outcome) ==
  LET user == current_user(query_user)
      request == Request("/api/container/exec", authorization, query_user, command)
  IN
  /\ IF ~RequestValidTable[command]
     THEN \* RequestValidationError, before the handler runs
          /\ ContainerIdle
          /\ last' = Step("request", request, Response(400, FALSE))
     ELSE IF log_event_raises(user)
     THEN /\ ContainerIdle
          /\ last' = Step("request", request, Response(500, FALSE))
     ELSE /\ exec_command_called(command)
          /\ last' = Step("request", request,
                          Response(IF exec_result(outcome).success THEN 200 ELSE 500, TRUE))
  /\ UNCHANGED <<observerVars, decisionVars, audit_enabled, poolVars, cacheVars, svcVars>>

\* POST /api/observer/start
start_observer(authorization, query_user) ==
  LET user == current_user(query_user)
      request == Request("/api/observer/start", authorization, query_user, <<>>)
  IN
  /\ IF log_event_raises(user)
     THEN /\ UNCHANGED observerVars
          /\ last' = Step("request", request, Response(500, FALSE))
     ELSE /\ start_monitoring
          /\ last' = Step("request", request, Response(200, TRUE))
  /\ ContainerIdle
  /\ UNCHANGED <<decisionVars, audit_enabled, poolVars, cacheVars, svcVars>>

\* POST /api/observer/stop
stop_observer(authorization, query_user) ==
  LET user == current_user(query_user)
      request == Request("/api/observer/stop", authorization, query_user, <<>>)
  IN
  /\ IF log_event_raises(user)
     THEN /\ UNCHANGED observerVars
          /\ last' = Step("request", request, Response(500, FALSE))
     ELSE /\ stop_monitoring
          /\ last' = Step("request", request, Response(200, TRUE))
  /\ ContainerIdle
  /\ UNCHANGED <<decisionVars, audit_enabled, poolVars, cacheVars, svcVars>>

RouteNext ==
  \/ \E a \in Authorizations, q \in QueryUsers, command \in Commands, outcome \in EngineOutcomes :
       exec_in_container(a, q, command, outcome)
  \/ \E a \in Authorizations, q \in QueryUsers : start_observer(a, q)
  \/ \E a \in Authorizations, q \in QueryUsers : stop_observer(a, q)

\* ------------------------------------------------- core/connection_pool.py
\* the two pools of a ConnectionPoolManager
Pools == {"docker", "http"}

\* the state after ConnectionPoolManager.__init__
PoolConstructed ==
  /\ pool_initialized = FALSE
  /\ docker_pool_enabled = FALSE
  /\ docker_clients = {}
  /\ docker_available_clients = <<>>
  /\ http_sessions = {}
  /\ http_available_sessions = <<>>
  /\ acquisitions = EmptyBag

\* what a step outside the pool does to it
appVars == <<observerVars, decisionVars, audit_enabled>>

\* an "async with" scope on a pool: where its task is, and the member it holds
NoMember == 0
Acquisition(pool, pc, member, caller) ==
  [pool |-> pool, pc |-> pc, member |-> member, caller |-> caller]

\* asyncio.Queue as the sequence of the members in it
available(pool) == IF pool = "docker" THEN docker_available_clients ELSE http_available_sessions
total(pool) == IF pool = "docker" THEN docker_clients ELSE http_sessions

\* the members of a pool that scopes in progress hold
CheckedOut(pool) ==
  {a.member : a \in {x \in BagToSet(acquisitions) : x.pool = pool /\ x.pc = "body"}}
HeldCount(pool) ==
  BagCardinality([a \in {x \in BagToSet(acquisitions) : x.pool = pool /\ x.pc = "body"}
                    |-> acquisitions[a]])

\* the queues after pool's queue became queue
SetAvailable(pool, queue) ==
  IF pool = "docker"
  THEN docker_available_clients' = queue /\ UNCHANGED http_available_sessions
  ELSE http_available_sessions' = queue /\ UNCHANGED docker_available_clients

\* ConnectionPoolManager.initialize: docker of the docker clients answer the
\* ping, http of the sessions are constructed
initialize(docker, http) ==
  /\ ~pool_initialized
  /\ pool_initialized' = TRUE
  /\ docker_clients' = 1..docker
  /\ docker_available_clients' = [i \in 1..docker |-> i]
  /\ docker_pool_enabled' = (docker > 0)
  /\ http_sessions' = 1..http
  /\ http_available_sessions' = [i \in 1..http |-> i]
  /\ UNCHANGED acquisitions
  /\ last' = Step("initialize", <<docker, http>>, "none")
  /\ ContainerIdle
  /\ UNCHANGED <<appVars, cacheVars, svcVars>>

\* ConnectionPoolManager.has_docker_pool
has_docker_pool == docker_pool_enabled

\* how the body of a scope can end
ScopeExits == {"returns", "raises", "cancelled"}

\* a scope whose finally clause runs only when the body returns
release_unless_raised(queue, member, how) ==
  IF how = "returns" THEN Append(queue, member) ELSE queue

\* the finally clause of get_docker_client / get_http_session: the member goes
\* back to the queue however the body ended
release(queue, member, how) == Append(queue, member)

\* "async with pool.get_docker_client()" / "get_http_session()" up to the body,
\* or up to the wait on an empty queue
EnterScope(pool) ==
  /\ BagCardinality(acquisitions) < MaxAcquirers
  /\ IF pool = "docker" /\ ~docker_pool_enabled
     THEN \* RuntimeError before anything is taken
          /\ UNCHANGED <<docker_available_clients, http_available_sessions, acquisitions>>
          /\ last' = Step("enter_scope", pool, "RuntimeError")
     ELSE IF available(pool) = <<>>
     THEN /\ acquisitions' = acquisitions (+) SetToBag({Acquisition(pool, "waiting", NoMember, "scope")})
          /\ UNCHANGED <<docker_available_clients, http_available_sessions>>
          /\ last' = Step("enter_scope", pool, "waits")
     ELSE /\ acquisitions' =
               acquisitions (+) SetToBag({Acquisition(pool, "body", Head(available(pool)), "scope")})
          /\ SetAvailable(pool, Tail(available(pool)))
          /\ last' = Step("enter_scope", pool, "body")
  /\ UNCHANGED <<pool_initialized, docker_pool_enabled, docker_clients, http_sessions>>
  /\ ContainerIdle
  /\ UNCHANGED <<appVars, cacheVars, svcVars>>

\* the body of a scope ends: the finally clause
ExitScope(task, how) ==
  /\ BagIn(task, acquisitions)
  /\ task.pc = "body"
  /\ acquisitions' = acquisitions (-) SetToBag({task})
  /\ SetAvailable(task.pool, release(available(task.pool), task.member, how))
  /\ last' = Step("exit_scope", task.pool, how)
  /\ UNCHANGED <<pool_initialized, docker_pool_enabled, docker_clients, http_sessions>>
  /\ ContainerIdle
  /\ UNCHANGED <<appVars, cacheVars, svcVars>>

\* a task waiting in Queue.get() is cancelled: it holds nothing, the finally
\* clause puts nothing back
CancelWaiting(task) ==
  /\ BagIn(task, acquisitions)
  /\ task.pc = "waiting"
  /\ acquisitions' = acquisitions (-) SetToBag({task})
  /\ last' = Step("exit_scope", task.pool, "cancelled_waiting")
  /\ UNCHANGED <<pool_initialized, docker_pool_enabled, docker_clients, http_sessions,
                 docker_available_clients, http_available_sessions>>
  /\ ContainerIdle
  /\ UNCHANGED <<appVars, cacheVars, svcVars>>

\* ------------------------------- container_manager.py: is_container_running
\* what the engine knows of the container: it runs, it is stopped, there is no
\* such container, there is none but one whose name contains its name runs, or
\* the engine cannot be reached
EngineStates == {"running", "stopped", "absent", "namesake_running", "unreachable"}

\* client.containers.get(name).status == 'running'; NotFound and any other
\* exception give False
pooled_lookup(engine) == engine = "running"

\* "docker ps --filter name=<name>" prints the running containers whose name
\* contains <name>; the answer is whether <name> occurs in that output
cli_query(engine) == engine \in {"running", "namesake_running"}

RunningCall(connection_pool, engine) == [connection_pool |-> connection_pool, engine |-> engine]

\* ContainerManager.is_container_running, up to its return or up to the wait
\* on an empty queue of clients
is_container_running(connection_pool, engine) ==
  /\ IF ~connection_pool
     THEN \* the manager was built without a pool: the command-line query
          /\ UNCHANGED <<docker_available_clients, acquisitions>>
          /\ last' = Step("is_container_running", RunningCall(connection_pool, engine),
                          cli_query(engine))
     ELSE IF ~docker_pool_enabled
     THEN \* get_docker_client raises RuntimeError; the outer except returns False
          /\ UNCHANGED <<docker_available_clients, acquisitions>>
          /\ last' = Step("is_container_running", RunningCall(connection_pool, engine), FALSE)
     ELSE IF docker_available_clients = <<>>
     THEN /\ BagCardinality(acquisitions) < MaxAcquirers
          /\ acquisitions' = acquisitions (+)
               SetToBag({Acquisition("docker", "waiting", NoMember, "is_container_running")})
          /\ UNCHANGED docker_available_clients
          /\ last' = Step("is_container_running", RunningCall(connection_pool, engine), "waits")
     ELSE \* the client is taken, asked and put back without a suspension
          /\ docker_available_clients' =
               release(Tail(docker_available_clients), Head(docker_available_clients), "returns")
          /\ UNCHANGED acquisitions
          /\ last' = Step("is_container_running", RunningCall(connection_pool, engine),
                          pooled_lookup(engine))
  /\ UNCHANGED <<pool_initialized, docker_pool_enabled, docker_clients, http_sessions,
                 http_available_sessions>>
  /\ ContainerIdle
  /\ UNCHANGED <<appVars, cacheVars, svcVars>>

\* Queue.get() returns to a waiting task: a scope enters its body; a waiting
\* is_container_running asks the engine, puts the client back and returns
WaitEnds(task, engine) ==
  /\ BagIn(task, acquisitions)
  /\ task.pc = "waiting"
  /\ available(task.pool) # <<>>
  /\ IF task.caller = "scope"
     THEN /\ acquisitions' = (acquisitions (-) SetToBag({task})) (+)
               SetToBag({Acquisition(task.pool, "body", Head(available(task.pool)), "scope")})
          /\ SetAvailable(task.pool, Tail(available(task.pool)))
          /\ last' = Step("enter_scope", task.pool, "body")
     ELSE /\ acquisitions' = acquisitions (-) SetToBag({task})
          /\ SetAvailable(task.pool,
               release(Tail(available(task.pool)), Head(available(task.pool)), "returns"))
          /\ last' = Step("is_container_running", RunningCall(TRUE, engine),
                          pooled_lookup(engine))
  /\ UNCHANGED <<pool_initialized, docker_pool_enabled, docker_clients, http_sessions>>
  /\ ContainerIdle
  /\ UNCHANGED <<appVars, cacheVars, svcVars>>

PoolNext ==
  \/ \E docker \in 0..MaxPoolSize, http \in 0..MaxPoolSize : initialize(docker, http)
  \/ \E pool \in Pools : EnterScope(pool)
  \/ \E task \in BagToSet(acquisitions), how \in ScopeExits : ExitScope(task, how)
  \/ \E task \in BagToSet(acquisitions) : CancelWaiting(task)
  \/ \E task \in BagToSet(acquisitions), engine \in EngineStates : WaitEnds(task, engine)
  \/ \E connection_pool \in BOOLEAN, engine \in EngineStates :
       is_container_running(connection_pool, engine)

\* --------------------------------------------------- core/cache_manager.py
CacheKeys == {"k1", "k2"}
CacheValues == {"v1", "v2"}
\* ttl arguments; 0 stands for the falsy ones (None, 0)
Ttls == {1, 2}
default_ttl == 300
\* the cap on the entries of the local tier, as configured
max_memory_cache == 1
\* what the sweep removes beyond the excess
EvictExtra == 100

\* Python's None, which get also returns for "absent"
None == "None"

NoEntry == [value |-> None, expires_at |-> -1, created_at |-> -1]
Entry(value, expires_at, created_at) ==
  [value |-> value, expires_at |-> expires_at, created_at |-> created_at]

\* what the latest set of a key asked for, and whether the sweep has since
\* evicted the entry for want of room
NoRequest == [value |-> None, expires_at |-> -1, evicted |-> FALSE]
Requested(value, expires_at) == [value |-> value, expires_at |-> expires_at, evicted |-> FALSE]

\* the state after CacheManager.__init__ and initialize(), the remote tier in
\* use or not
CacheConstructed(redis) ==
  /\ now = 0
  /\ redis_enabled = redis
  /\ memory_cache = [k \in CacheKeys |-> NoEntry]
  /\ redis_store = [k \in CacheKeys |-> NoEntry]
  /\ latest_set = [k \in CacheKeys |-> NoRequest]
  /\ cachedCalls = EmptyBag

\* how a call of the Redis client can end; nothing is called when the tier is off
RemoteOutcomes == IF redis_enabled THEN {"ok", "fails"} ELSE {"skipped"}

\* redis_client.get(key): the stored text, or None when the key is missing or
\* its time to live is over
redis_get(key) ==
  IF redis_store[key] # NoEntry /\ now < redis_store[key].expires_at
  THEN redis_store[key].value ELSE None

\* the keys the local tier holds
CachedKeys == {k \in CacheKeys : memory_cache[k] # NoEntry}

\* CacheManager.get that still returns an entry at the instant it expires
get_until_expiry_included(key, remote) ==
  IF redis_enabled /\ remote = "ok" /\ redis_get(key) # None
  THEN redis_get(key)
  ELSE IF memory_cache[key] # NoEntry /\ memory_cache[key].expires_at >= now
  THEN memory_cache[key].value
  ELSE None

\* CacheManager.get: the value it returns
get(key, remote) ==
  IF redis_enabled /\ remote = "ok" /\ redis_get(key) # None
  THEN redis_get(key)
  ELSE IF memory_cache[key] # NoEntry /\ memory_cache[key].expires_at > now
  THEN memory_cache[key].value
  ELSE None

\* CacheManager.set: its effect on the two tiers
set(key, value, ttl, remote) ==
  LET expires_at == now + (IF ttl # 0 THEN ttl ELSE default_ttl)
  IN
  /\ redis_store' =
       IF redis_enabled /\ remote = "ok"
       THEN [redis_store EXCEPT ![key] = Entry(value, expires_at, -1)]
       ELSE redis_store
  /\ memory_cache' = [memory_cache EXCEPT ![key] = Entry(value, expires_at, now)]
  /\ latest_set' = [latest_set EXCEPT ![key] = Requested(value, expires_at)]
set_returns(remote) == ~(redis_enabled /\ remote = "fails")

\* CacheManager.delete: its effect on the two tiers
delete(key, remote) ==
  /\ redis_store' =
       IF redis_enabled /\ remote = "ok"
       THEN [redis_store EXCEPT ![key] = NoEntry]
       ELSE redis_store
  /\ memory_cache' = [memory_cache EXCEPT ![key] = NoEntry]
  /\ latest_set' = [latest_set EXCEPT ![key] = NoRequest]

\* what a step of the cache leaves alone
CacheFrame ==
  /\ ContainerIdle
  /\ UNCHANGED <<appVars, poolVars, svcVars>>

SetArgs(key, value, ttl) == [key |-> key, value |-> value, ttl |-> ttl]

\* a caller in the process awaits cache_manager.get(key)
Get(key, remote) ==
  /\ last' = Step("get", key, get(key, remote))
  /\ UNCHANGED cacheVars
  /\ CacheFrame

\* a caller in the process awaits cache_manager.set(key, value, ttl)
Set(key, value, ttl, remote) ==
  /\ set(key, value, ttl, remote)
  /\ last' = Step("set", SetArgs(key, value, ttl), set_returns(remote))
  /\ UNCHANGED <<now, redis_enabled, cachedCalls>>
  /\ CacheFrame

\* a caller in the process awaits cache_manager.delete(key)
Delete(key, remote) ==
  /\ delete(key, remote)
  /\ last' = Step("delete", key, set_returns(remote))
  /\ UNCHANGED <<now, redis_enabled, cachedCalls>>
  /\ CacheFrame

\* the entries one pass of _cleanup_memory_cache finds expired
expired_keys == {k \in CachedKeys : memory_cache[k].expires_at < now}

\* one pass of _cleanup_memory_cache: the expired entries go; if more than
\* max_memory_cache entries are left, the first remove_count of them in the
\* order of created_at go too (evicted is such a set: entries of one created_at
\* are taken in the dictionary's order, which the model leaves open)
_cleanup_memory_cache(evicted) ==
  LET left == CachedKeys \ expired_keys
      remove_count == Cardinality(left) - max_memory_cache + EvictExtra
      over == Cardinality(left) > max_memory_cache
  IN
  /\ evicted \subseteq left
  /\ IF over
     THEN /\ Cardinality(evicted) =
               (IF remove_count < Cardinality(left) THEN remove_count ELSE Cardinality(left))
          /\ \A gone \in evicted, kept \in left \ evicted :
               memory_cache[gone].created_at <= memory_cache[kept].created_at
     ELSE evicted = {}
  /\ memory_cache' =
       [k \in CacheKeys |-> IF k \in expired_keys \cup evicted THEN NoEntry ELSE memory_cache[k]]
  /\ latest_set' =
       [k \in CacheKeys |-> IF k \in evicted THEN [latest_set[k] EXCEPT !.evicted = TRUE]
                            ELSE latest_set[k]]
  /\ last' = Step("_cleanup_memory_cache", "none", "none")
  /\ UNCHANGED <<now, redis_enabled, redis_store, cachedCalls>>
  /\ CacheFrame

\* the clock advances; the Redis server drops the keys whose time to live is
\* over
Tick ==
  /\ now < MaxTime
  /\ now' = now + 1
  /\ redis_store' =
       [k \in CacheKeys |-> IF redis_store[k].expires_at <= now + 1 THEN NoEntry
                            ELSE redis_store[k]]
  /\ last' = Step("tick", "none", "none")
  /\ UNCHANGED <<redis_enabled, memory_cache, latest_set, cachedCalls>>
  /\ CacheFrame

CacheNext ==
  \/ \E key \in CacheKeys, remote \in RemoteOutcomes : Get(key, remote)
  \/ \E key \in CacheKeys, value \in CacheValues, ttl \in Ttls, remote \in RemoteOutcomes :
       Set(key, value, ttl, remote)
  \/ \E key \in CacheKeys, remote \in RemoteOutcomes : Delete(key, remote)
  \/ \E evicted \in SUBSET CacheKeys : _cleanup_memory_cache(evicted)
  \/ Tick

\* --------------------------------------- cache_manager.py: CacheManager.cached
\* the arguments a decorated function is called with
DecoratedArgs == {"a1", "a2"}

\* the key the wrapper makes of the prefix, the function's name and the hash
\* of str(args): one key for each argument tuple (two argument tuples whose
\* hashes collide are not modelled)
cache_key(args) == IF args = "a1" THEN "k1" ELSE "k2"

\* how the wrapped function can end: it returns a value, it returns None, it
\* raises
FuncOutcomes == {"v1", None, "raises"}

CachedCall(args) == [args |-> args, pc |-> "in_func"]
CallResult(value, executed) == [value |-> value, executed |-> executed]

\* a call of the wrapper up to its return of the cached result, or up to the
\* await of the wrapped function
CallWrapped(args, remote) ==
  LET cached_result == get(cache_key(args), remote)
  IN
  /\ IF cached_result # None
     THEN /\ UNCHANGED cachedCalls
          /\ last' = Step("cached_call", args, CallResult(cached_result, FALSE))
     ELSE /\ BagCardinality(cachedCalls) < MaxCalls
          /\ cachedCalls' = cachedCalls (+) SetToBag({CachedCall(args)})
          /\ last' = Step("cached_call", args, CallResult("pending", TRUE))
  /\ UNCHANGED <<now, redis_enabled, memory_cache, redis_store, latest_set>>
  /\ CacheFrame

\* the wrapped function ends: its result is cached with the decorator's ttl
\* (None: the default) and returned; an exception is passed on
FuncReturns(task, outcome, remote) ==
  /\ BagIn(task, cachedCalls)
  /\ cachedCalls' = cachedCalls (-) SetToBag({task})
  /\ IF outcome = "raises"
     THEN UNCHANGED <<memory_cache, redis_store, latest_set>>
     ELSE set(cache_key(task.args), outcome, 0, remote)
  /\ last' = Step("cached_return", task.args, outcome)
  /\ UNCHANGED <<now, redis_enabled>>
  /\ CacheFrame

DecoratorNext ==
  \/ \E args \in DecoratedArgs, remote \in RemoteOutcomes : CallWrapped(args, remote)
  \/ \E task \in BagToSet(cachedCalls), outcome \in FuncOutcomes, remote \in RemoteOutcomes :
       FuncReturns(task, outcome, remote)
  \/ Tick

\* ------------------------------------------ core/performance_monitor.py
\* A task asyncio.create_task(self._monitor_loop()) made is "alive" until
\* cancel() is called on it, "cancelling" until the CancelledError is thrown
\* into it, and "done" after; "none" is a task that was never created.
PerformanceMonitorConstructed ==
  /\ pm_is_monitoring = FALSE
  /\ pm_monitor_task = 0
  /\ pm_tasks = [id \in 1..MaxTasks |-> "none"]
  /\ pm_stops = EmptyBag
  /\ response_times = <<>>
  /\ cpu_usage = <<>>
  /\ memory_usage = <<>>
  /\ error_counts = 0

\* the configured metrics_window (1000 when not configured)
metrics_window == 2
\* deque(maxlen=metrics_window).append
deque_append(buffer, sample) ==
  IF Len(buffer) >= metrics_window THEN Append(Tail(buffer), sample) ELSE Append(buffer, sample)

\* what _collect_metrics reads from psutil: a CPU and a memory percentage, or
\* an exception (the count of connections it also samples is read by no check)
NoSample == [taken |-> FALSE, cpu |-> 0, memory |-> 0]
Samples == [taken : {TRUE}, cpu : {50, 90}, memory : {50, 90}] \cup {NoSample}

\* PerformanceMonitor._collect_metrics
_collect_metrics(sample) ==
  IF sample.taken
  THEN /\ cpu_usage' = deque_append(cpu_usage, sample.cpu)
       /\ memory_usage' = deque_append(memory_usage, sample.memory)
  ELSE UNCHANGED <<cpu_usage, memory_usage>>

\* a name for the Task create_task returns: one no live reference still uses
FreeTasks == {id \in 1..MaxTasks : pm_tasks[id] \in {"none", "done"} /\ ~BagIn(id, pm_stops)}

MonitorFrame ==
  /\ ContainerIdle
  /\ UNCHANGED <<appVars, poolVars, cacheVars, managerVars, initVars, whisperVars, webVars>>

\* PerformanceMonitor.start_monitoring
PmStartMonitoring ==
  /\ IF pm_is_monitoring
     THEN /\ UNCHANGED <<pm_is_monitoring, pm_monitor_task, pm_tasks>>
          /\ last' = Step("start_monitoring", pm_monitor_task, "noop")
     ELSE /\ FreeTasks # {}
          /\ LET id == CHOOSE id \in FreeTasks : \A other \in FreeTasks : id <= other
             IN /\ pm_is_monitoring' = TRUE
                /\ pm_monitor_task' = id
                /\ pm_tasks' = [pm_tasks EXCEPT ![id] = "alive"]
                /\ last' = Step("start_monitoring", id, "started")
  /\ UNCHANGED <<pm_stops, metricsVars>>
  /\ MonitorFrame

\* Task.cancel(): a request, delivered when the task next runs
cancel_ignored(state) == state
cancel(state) == IF state = "alive" THEN "cancelling" ELSE state

\* PerformanceMonitor.stop_monitoring up to "await self.monitor_task"; with
\* no task, or with one that is done, it returns without suspending
PmStopMonitoring ==
  /\ pm_is_monitoring' = FALSE
  /\ UNCHANGED pm_monitor_task
  /\ IF pm_monitor_task = 0
     THEN /\ UNCHANGED <<pm_tasks, pm_stops>>
          /\ last' = Step("stop_monitoring", 0, "returned")
     ELSE /\ pm_tasks' = [pm_tasks EXCEPT ![pm_monitor_task] = cancel(@)]
          /\ IF pm_tasks[pm_monitor_task] = "done"
             THEN /\ UNCHANGED pm_stops
                  /\ last' = Step("stop_monitoring", pm_monitor_task, "returned")
             ELSE /\ BagCardinality(pm_stops) < MaxTasks
                  /\ pm_stops' = pm_stops (+) SetToBag({pm_monitor_task})
                  /\ last' = Step("stop_monitoring", pm_monitor_task, "awaits")
  /\ UNCHANGED metricsVars
  /\ MonitorFrame

\* PerformanceMonitor._monitor_loop resumes: a pending CancelledError ends it
\* (neither "except Exception" catches it); otherwise it tests is_monitoring,
\* samples and sleeps again, or returns
_monitor_loop(id, sample) ==
  /\ pm_tasks[id] \in {"alive", "cancelling"}
  /\ IF pm_tasks[id] = "cancelling"
     THEN /\ pm_tasks' = [pm_tasks EXCEPT ![id] = "done"]
          /\ UNCHANGED <<cpu_usage, memory_usage>>
          /\ last' = Step("_monitor_loop", id, "cancelled")
     ELSE IF pm_is_monitoring
     THEN /\ UNCHANGED pm_tasks
          /\ _collect_metrics(sample)
          /\ last' = Step("_monitor_loop", id, "sampled")
     ELSE /\ pm_tasks' = [pm_tasks EXCEPT ![id] = "done"]
          /\ UNCHANGED <<cpu_usage, memory_usage>>
          /\ last' = Step("_monitor_loop", id, "returned")
  /\ UNCHANGED <<pm_is_monitoring, pm_monitor_task, pm_stops, response_times, error_counts>>
  /\ MonitorFrame

\* "await self.monitor_task" ends once the task is done; stop_monitoring
\* swallows the CancelledError and returns
PmStopReturns(id) ==
  /\ BagIn(id, pm_stops)
  /\ pm_tasks[id] = "done"
  /\ pm_stops' = pm_stops (-) SetToBag({id})
  /\ last' = Step("stop_monitoring", id, "returned")
  /\ UNCHANGED <<pm_is_monitoring, pm_monitor_task, pm_tasks, metricsVars>>
  /\ MonitorFrame

MonitorNext ==
  \/ PmStartMonitoring
  \/ PmStopMonitoring
  \/ \E id \in 1..MaxTasks, sample \in Samples : _monitor_loop(id, sample)
  \/ \E id \in 1..MaxTasks : PmStopReturns(id)

\* ------------------------- core/performance_monitor.py: the health verdict
\* the default health_thresholds; max_error_rate is 0.1, held in percent
max_response_time == 5
max_cpu_percent == 90
max_memory_percent == 90
max_error_rate_percent == 10

\* durations a call can take, below and at the threshold
Durations == {1, 5}

\* sorted(values)[index], the index counted from 0
sorted_at(values, index) ==
  CHOOSE v \in {values[i] : i \in DOMAIN values} :
    /\ Cardinality({i \in DOMAIN values : values[i] < v}) <= index
    /\ index < Cardinality({i \in DOMAIN values : values[i] <= v})

RECURSIVE sum(_)
sum(values) == IF values = <<>> THEN 0 ELSE Head(values) + sum(Tail(values))

\* the sub-objects of the summary; "present" is false for the empty dict that
\* an empty buffer leaves, and an average is held as total and count
NoStats == [present |-> FALSE, p95 |-> 0, total_requests |-> 0]
NoAverage == [present |-> FALSE, total |-> 0, count |-> 0]
average_of(values) ==
  IF values = <<>> THEN NoAverage
  ELSE [present |-> TRUE, total |-> sum(values), count |-> Len(values)]

\* PerformanceMonitor.get_metrics_summary, as far as get_health_status reads it
get_metrics_summary ==
  [response_time |->
     IF response_times = <<>> THEN NoStats
     ELSE [present |-> TRUE,
           p95 |-> sorted_at(response_times, (Len(response_times) * 95) \div 100),
           total_requests |-> Len(response_times)],
   cpu_usage |-> average_of(cpu_usage),
   memory_usage |-> average_of(memory_usage),
   errors |-> error_counts]

\* PerformanceMonitor.get_health_status; error_rate is held as the fraction
\* total_errors / max(total_requests, 1)
get_health_status ==
  LET metrics == get_metrics_summary
      response_time_ok ==
        ~metrics.response_time.present \/ metrics.response_time.p95 < max_response_time
      cpu_ok ==
        \/ ~metrics.cpu_usage.present
        \/ metrics.cpu_usage.total < max_cpu_percent * metrics.cpu_usage.count
      memory_ok ==
        \/ ~metrics.memory_usage.present
        \/ metrics.memory_usage.total < max_memory_percent * metrics.memory_usage.count
      total_requests == metrics.response_time.total_requests
      total_errors == metrics.errors
      requests == IF total_requests > 1 THEN total_requests ELSE 1
      error_rate_ok == total_errors * 100 < max_error_rate_percent * requests
  IN [healthy |-> response_time_ok /\ cpu_ok /\ memory_ok /\ error_rate_ok,
      checks |-> [response_time |-> response_time_ok, cpu_usage |-> cpu_ok,
                  memory_usage |-> memory_ok, error_rate |-> error_rate_ok],
      error_rate |-> [errors |-> total_errors, requests |-> requests]]

HealthFrame ==
  /\ UNCHANGED monitorVars
  /\ MonitorFrame

\* record_error called by a handler itself (main.py:218, api/system.py:320):
\* the task it creates adds one to the tally
record_error ==
  /\ error_counts < MaxErrors
  /\ error_counts' = error_counts + 1
  /\ last' = Step("record_error", "handler", "none")
  /\ UNCHANGED <<response_times, cpu_usage, memory_usage>>
  /\ HealthFrame

\* a call of a handler wrapped by api_performance_decorator: on an exception
\* record_error, and in every case record_response_time.  The tasks the two
\* create are queued one behind the other and each runs without suspending
\* (no holder of metrics_lock awaits while holding it), so no reader runs
\* between them.
api_performance_decorator(duration, raises) ==
  /\ raises => error_counts < MaxErrors
  /\ error_counts' = IF raises THEN error_counts + 1 ELSE error_counts
  /\ response_times' = deque_append(response_times, duration)
  /\ last' = Step("wrapper", duration, IF raises THEN "raised" ELSE "returned")
  /\ UNCHANGED <<cpu_usage, memory_usage>>
  /\ HealthFrame

\* a caller awaits get_health_status
GetHealthStatus ==
  /\ last' = Step("get_health_status", "none", get_health_status)
  /\ UNCHANGED metricsVars
  /\ HealthFrame

\* the response FastAPI makes of what health_check returns: the handler
\* computes status_code and returns the dict, which is sent with status 200
health_check_response(health_status) ==
  LET status_code == IF health_status.healthy THEN 200 ELSE 503
  IN [status_code |-> 200, body |-> health_status]

\* GET /health: the route of api/system.py, and the one of main.py, which is
\* wrapped by api_performance_decorator
health_check(app, duration) ==
  /\ response_times' = IF app = "main" THEN deque_append(response_times, duration)
                       ELSE response_times
  /\ last' = Step("health_check", app, health_check_response(get_health_status))
  /\ UNCHANGED <<cpu_usage, memory_usage, error_counts>>
  /\ HealthFrame

\* the monitor and its readers, with handlers that call record_error themselves
HealthNext ==
  \/ \E id \in 1..MaxTasks, sample \in Samples : _monitor_loop(id, sample)
  \/ record_error
  \/ \E duration \in Durations, raises \in BOOLEAN : api_performance_decorator(duration, raises)
  \/ GetHealthStatus
  \/ \E duration \in Durations : health_check("api", duration)

\* the same with every handler wrapped and none calling record_error itself
InstrumentNext ==
  \/ \E id \in 1..MaxTasks, sample \in Samples : _monitor_loop(id, sample)
  \/ \E duration \in Durations, raises \in BOOLEAN : api_performance_decorator(duration, raises)
  \/ GetHealthStatus
  \/ \E duration \in Durations : health_check("main", duration)

\* ------------------------------- container_manager.py: the other operations
\* ContainerManager.__init__: with or without a pool, over a configuration
ManagerConstructed(pool, configured) ==
  /\ cm_connection_pool = pool
  /\ cm_configured = configured
  /\ cm_calls = EmptyBag
  /\ engine_command = [verb |-> "none", options |-> {}]

Operations == {"build_image", "start_container", "stop_container", "remove_container",
               "is_container_running", "get_container_status", "get_container_stats",
               "exec_command"}

\* the docker subcommand an operation spawns first
first_command(op) ==
  CASE op = "build_image" -> "build"
    [] op = "start_container" -> "ps"
    [] op = "stop_container" -> "stop"
    [] op = "remove_container" -> "rm"
    [] op = "is_container_running" -> "ps"
    [] op = "get_container_status" -> "ps_all"
    [] op = "get_container_stats" -> "stats"
    [] op = "exec_command" -> "exec"

\* whether process.communicate() is awaited under asyncio.wait_for
timed(verb) == verb \in {"build", "stats", "exec"}

\* the options of the "docker run" start_container builds
docker_run_options(ports) ==
  {"-d", "--name", "--restart", "--network"}
    \cup (cm_configured \cap {"-e", "-v"})
    \cup (IF ports \/ "-p" \in cm_configured THEN {"-p"} ELSE {})

\* what is_container_running answers without an await that suspends, the
\* pool's client being free
reports_running(connection_pool, engine) ==
  IF connection_pool THEN docker_pool_enabled /\ pooled_lookup(engine) ELSE cli_query(engine)

\* start_container after the check: "if await self.is_container_running()"
launch_always(running) == TRUE
launch_needed(running) == ~running

ManagerCall(op, verb, ports) == [op |-> op, verb |-> verb, ports |-> ports]
cm_result(success, outcome, running, launched) ==
  [success |-> success, outcome |-> outcome, running |-> running, launched |-> launched]

ManagerFrame ==
  /\ ContainerIdle
  /\ UNCHANGED <<appVars, poolVars, cacheVars, monitorVars, metricsVars, initVars, whisperVars,
                 webVars, cm_connection_pool, cm_configured>>

\* create_subprocess_exec(*cmd): the process exists, or the call raised and
\* the operation's "except Exception" returns the failure
spawn(calls, op, verb, ports, spawns, running) ==
  IF spawns
  THEN /\ cm_calls' = calls (+) SetToBag({ManagerCall(op, verb, ports /\ verb = "ps")})
       /\ engine_command' = [verb |-> verb,
                             options |-> IF verb = "run" THEN docker_run_options(ports) ELSE {}]
       /\ last' = Step(op, verb, cm_result(FALSE, "awaits", running, verb = "run"))
  ELSE /\ cm_calls' = calls
       /\ engine_command' = [verb |-> "none", options |-> {}]
       /\ last' = Step(op, verb, cm_result(FALSE, "spawn_error", running, FALSE))

\* start_container from the answer of is_container_running on
start_container_checked(calls, ports, running, spawns) ==
  IF launch_needed(running)
  THEN spawn(calls, "start_container", "run", ports, spawns, running)
  ELSE /\ cm_calls' = calls
       /\ engine_command' = [verb |-> "none", options |-> {}]
       /\ last' = Step("start_container", "none", cm_result(TRUE, "already_running", running, FALSE))

\* an operation of the Container Manager is called: it runs up to its first
\* await of an engine process, or to its return
CallOperation(op, ports, engine, spawns) ==
  /\ BagCardinality(cm_calls) < MaxManagerCalls
  /\ IF cm_connection_pool /\ op = "is_container_running"
     THEN /\ UNCHANGED cm_calls
          /\ engine_command' = [verb |-> "none", options |-> {}]
          /\ last' = Step(op, "none", cm_result(reports_running(TRUE, engine), "answered",
                                               reports_running(TRUE, engine), FALSE))
     ELSE IF cm_connection_pool /\ op = "start_container"
     THEN start_container_checked(cm_calls, ports, reports_running(TRUE, engine), spawns)
     ELSE spawn(cm_calls, op, first_command(op), ports, spawns, FALSE)
  /\ ManagerFrame

\* process.communicate() returns: the engine process has exited
ProcessExits(call, code, engine, spawns) ==
  /\ BagIn(call, cm_calls)
  /\ LET rest == cm_calls (-) SetToBag({call})
         done(success, outcome, running) ==
           /\ cm_calls' = rest
           /\ engine_command' = [verb |-> "none", options |-> {}]
           /\ last' = Step(call.op, call.verb,
                           cm_result(success, outcome, running, call.verb = "run"))
     IN CASE call.op = "start_container" /\ call.verb = "ps" ->
               start_container_checked(rest, call.ports, reports_running(FALSE, engine), spawns)
          [] call.op = "is_container_running" ->
               done(reports_running(FALSE, engine), "answered", reports_running(FALSE, engine))
          [] call.verb = "ps_all" ->
               \* "Up" in Status: the statistics are asked for before returning
               IF code = "exit_0" /\ engine = "running"
               THEN spawn(rest, call.op, "stats", call.ports, spawns, TRUE)
               ELSE done(TRUE, code, FALSE)
          [] call.op = "get_container_status" /\ call.verb = "stats" -> done(TRUE, code, TRUE)
          [] OTHER -> done(code = "exit_0", code, FALSE)
  /\ ManagerFrame

\* asyncio.wait_for raises TimeoutError: process.kill() and the timeout
\* failure; get_container_status returns its data without the statistics
TimeoutExpires(call) ==
  /\ BagIn(call, cm_calls)
  /\ timed(call.verb)
  /\ cm_calls' = cm_calls (-) SetToBag({call})
  /\ engine_command' = [verb |-> "kill", options |-> {}]
  /\ last' = Step(call.op, call.verb,
                  cm_result(call.op = "get_container_status", "timeout", FALSE, FALSE))
  /\ ManagerFrame

ManagerNext ==
  \/ \E op \in Operations, engine \in EngineStates, spawns \in BOOLEAN :
       \E ports \in IF op = "start_container" THEN BOOLEAN ELSE {FALSE} :
         CallOperation(op, ports, engine, spawns)
  \/ \E call \in BagToSet(cm_calls), code \in {"exit_0", "exit_nonzero"},
        engine \in EngineStates, spawns \in BOOLEAN :
       ProcessExits(call, code, engine, spawns)
  \/ \E call \in BagToSet(cm_calls) : TimeoutExpires(call)
  \/ initialize(1, 0)

\* ------------------------------------------------------ whisper_injection.py
\* The handlers of the whisper routes are coroutines without an await inside
\* the manager: they run one at a time on the event-loop thread.  The jobs of
\* the schedule run on the thread start_injection made.  A step of a thread is
\* a stretch of byte code the interpreter does not interrupt.
LogThreads == {"handler", "scheduler"}
LogOp(pc, slice) == [pc |-> pc, slice |-> slice]
SchedulerThread(current, pc) == [current |-> current, pc |-> pc]

\* WhisperInjectionManager.__init__ over a configuration and the files found
WhisperConstructed(enabled, words, limit) ==
  /\ wi_enabled = enabled
  /\ wi_is_running = FALSE
  /\ schedule_jobs = 0
  /\ wi_threads = EmptyBag
  /\ wi_handler = "idle"
  /\ vocabulary = words
  /\ vocabulary_file = words
  /\ injection_logs = <<>>
  /\ log_file = <<>>
  /\ max_log_entries = limit
  /\ log_ops = [thread \in LogThreads |-> LogOp("idle", <<>>)]
  /\ wi_appended = 0
  /\ wi_cleared = 0

WhisperFrame ==
  /\ ContainerIdle
  /\ UNCHANGED <<appVars, poolVars, cacheVars, monitorVars, metricsVars, managerVars, initVars,
                 webVars>>

\* word in self.vocabulary
InList(word, words) == \E i \in 1..Len(words) : words[i] = word

\* list.remove(word): the first occurrence goes
ListRemove(words, word) ==
  LET first == CHOOSE i \in 1..Len(words) : words[i] = word /\ \A j \in 1..(i - 1) : words[j] # word
  IN SubSeq(words, 1, first - 1) \o SubSeq(words, first + 1, Len(words))

\* add_vocabulary: the vocabulary it leaves
add_vocabulary_untrimmed_test(words, word) ==
  IF word = <<>> \/ Strip(word) = <<>> \/ InList(word, words)
  THEN words ELSE Append(words, Strip(word))
add_vocabulary(words, word) ==
  IF word = <<>> \/ Strip(word) = <<>> \/ InList(Strip(word), words)
  THEN words ELSE Append(words, Strip(word))

\* _save_vocabulary: the file is rewritten, or the failure is logged
_save_vocabulary(words, written) ==
  vocabulary_file' = IF written THEN words ELSE vocabulary_file

\* a handler calls add_vocabulary(word)
AddVocabulary(word, written) ==
  /\ wi_handler = "idle"
  /\ vocabulary' = add_vocabulary(vocabulary, word)
  /\ IF vocabulary' # vocabulary
     THEN _save_vocabulary(vocabulary', written) ELSE UNCHANGED vocabulary_file
  /\ last' = Step("add_vocabulary", word, vocabulary' # vocabulary)
  /\ UNCHANGED <<schedulerVars, logVars>>
  /\ WhisperFrame

\* a handler calls remove_vocabulary(word)
RemoveVocabulary(word, written) ==
  /\ wi_handler = "idle"
  /\ IF InList(word, vocabulary)
     THEN /\ vocabulary' = ListRemove(vocabulary, word)
          /\ _save_vocabulary(vocabulary', written)
     ELSE UNCHANGED vocabularyVars
  /\ last' = Step("remove_vocabulary", word, InList(word, vocabulary))
  /\ UNCHANGED <<schedulerVars, logVars>>
  /\ WhisperFrame

\* a handler calls clear_vocabulary()
ClearVocabulary(written) ==
  /\ wi_handler = "idle"
  /\ vocabulary' = <<>>
  /\ _save_vocabulary(<<>>, written)
  /\ last' = Step("clear_vocabulary", "none", "none")
  /\ UNCHANGED <<schedulerVars, logVars>>
  /\ WhisperFrame

\* start_injection
start_injection ==
  /\ wi_handler = "idle"
  /\ IF ~wi_enabled \/ wi_is_running
     THEN /\ UNCHANGED <<wi_is_running, schedule_jobs, wi_threads>>
          /\ last' = Step("start_injection", "none", "noop")
     ELSE /\ BagCardinality(wi_threads) < MaxTasks
          /\ wi_is_running' = TRUE
          /\ schedule_jobs' = schedule_jobs + 1
          /\ wi_threads' =
               BagOfAll(LAMBDA thread : SchedulerThread(FALSE, thread.pc), wi_threads)
                 (+) SetToBag({SchedulerThread(TRUE, "sleep")})
          /\ last' = Step("start_injection", "none", "started")
  /\ UNCHANGED <<wi_enabled, wi_handler, vocabularyVars, logVars>>
  /\ WhisperFrame

\* the thread self.scheduler_thread names, when it is alive
CurrentThreads == {thread \in BagToSet(wi_threads) : thread.current}

\* stop_injection up to the join
stop_injection ==
  /\ wi_handler = "idle"
  /\ IF ~wi_is_running
     THEN /\ UNCHANGED <<wi_is_running, schedule_jobs, wi_handler>>
          /\ last' = Step("stop_injection", "none", "noop")
     ELSE /\ wi_is_running' = FALSE
          /\ schedule_jobs' = 0
          /\ wi_handler' = IF CurrentThreads # {} THEN "joining" ELSE "idle"
          /\ last' = Step("stop_injection", "none",
                          IF CurrentThreads # {} THEN "joining" ELSE "stopped")
  /\ UNCHANGED <<wi_enabled, wi_threads, vocabularyVars, logVars>>
  /\ WhisperFrame

\* scheduler_thread.join(timeout=5) returns: the thread has exited, or five
\* seconds have passed with the thread still inside a job (a thread that
\* sleeps wakes within the second and exits)
JoinReturns ==
  /\ wi_handler = "joining"
  /\ \A thread \in CurrentThreads : thread.pc = "in_job"
  /\ wi_handler' = "idle"
  /\ last' = Step("stop_injection", IF CurrentThreads = {} THEN "joined" ELSE "timed_out",
                  "stopped")
  /\ UNCHANGED <<wi_enabled, wi_is_running, schedule_jobs, wi_threads, vocabularyVars, logVars>>
  /\ WhisperFrame

\* _run_scheduler: a thread wakes from time.sleep(1), tests is_running and
\* leaves, or calls run_pending, which runs the job when one is due
_run_scheduler(thread, due) ==
  /\ BagIn(thread, wi_threads)
  /\ thread.pc = "sleep"
  /\ IF ~wi_is_running
     THEN /\ wi_threads' = wi_threads (-) SetToBag({thread})
          /\ last' = Step("_run_scheduler", thread.current, "exits")
     ELSE IF due /\ schedule_jobs > 0
     THEN /\ wi_threads' = (wi_threads (-) SetToBag({thread}))
                             (+) SetToBag({SchedulerThread(thread.current, "in_job")})
          /\ last' = Step("_run_scheduler", thread.current, "runs_job")
     ELSE /\ UNCHANGED wi_threads
          /\ last' = Step("_run_scheduler", thread.current, "sleeps")
  /\ UNCHANGED <<wi_enabled, wi_is_running, schedule_jobs, wi_handler, vocabularyVars, logVars>>
  /\ WhisperFrame

\* the job returns to run_pending and the thread sleeps again
JobReturns(thread) ==
  /\ BagIn(thread, wi_threads)
  /\ thread.pc = "in_job"
  /\ wi_threads' = (wi_threads (-) SetToBag({thread}))
                      (+) SetToBag({SchedulerThread(thread.current, "sleep")})
  /\ last' = Step("_run_scheduler", thread.current, "job_returned")
  /\ UNCHANGED <<wi_enabled, wi_is_running, schedule_jobs, wi_handler, vocabularyVars, logVars>>
  /\ WhisperFrame

\* the words the routes are called with
Words == {<<>>, <<" ">>, <<"a">>, <<" ", "a">>, <<"a", " ">>, <<"b">>}

WhisperNext ==
  \/ \E word \in Words, written \in BOOLEAN : AddVocabulary(word, written)
  \/ \E word \in Words, written \in BOOLEAN : RemoveVocabulary(word, written)
  \/ \E written \in BOOLEAN : ClearVocabulary(written)
  \/ start_injection
  \/ stop_injection
  \/ JoinReturns
  \/ \E thread \in BagToSet(wi_threads), due \in BOOLEAN : _run_scheduler(thread, due)
  \/ \E thread \in BagToSet(wi_threads) : JobReturns(thread)

\* -------------------------------------- whisper_injection.py: the log
\* A log entry is known by its number in the order of the appends.
\* a thread may start a mutation of the log: a handler when the event loop is
\* free, the job when the manager runs with its job scheduled
MayMutate(thread) ==
  /\ log_ops[thread].pc = "idle"
  /\ IF thread = "handler" THEN wi_handler = "idle"
     ELSE wi_is_running /\ schedule_jobs > 0 /\ wi_threads # EmptyBag

LogFrame ==
  /\ UNCHANGED <<schedulerVars, vocabularyVars, max_log_entries>>
  /\ WhisperFrame

\* inject_random_word up to its call of _save_logs: with words to choose from
\* it writes /tmp/whisper.txt, or fails to, and appends the entry
inject_random_word(thread, written) ==
  /\ MayMutate(thread)
  /\ IF vocabulary = <<>>
     THEN /\ UNCHANGED <<injection_logs, log_ops, wi_appended>>
          /\ last' = Step("inject_random_word", thread, None)
     ELSE /\ wi_appended < MaxInjections
          /\ wi_appended' = wi_appended + 1
          /\ injection_logs' = Append(injection_logs, wi_appended')
          /\ log_ops' = [log_ops EXCEPT ![thread] = LogOp("save", <<>>)]
          /\ last' = Step("inject_random_word", thread,
                          IF written THEN "appended" ELSE "appended_failure")
  /\ UNCHANGED <<log_file, wi_cleared>>
  /\ LogFrame

\* clear_logs up to its call of _save_logs
clear_logs ==
  /\ MayMutate("handler")
  /\ injection_logs' = <<>>
  /\ wi_cleared' = wi_appended
  /\ log_ops' = [log_ops EXCEPT !["handler"] = LogOp("save", <<>>)]
  /\ last' = Step("clear_logs", "handler", "cleared")
  /\ UNCHANGED <<log_file, wi_appended>>
  /\ LogFrame

\* _save_logs, in three stretches: the length test with the slice
\* injection_logs[-max_log_entries:], the assignment of the slice, and the
\* dump of the list to the file (a failure of which is logged)
_save_logs(thread, written) ==
  /\ log_ops[thread].pc \in {"save", "assign", "dump"}
  /\ CASE log_ops[thread].pc = "save" ->
            /\ written
            /\ log_ops' = [log_ops EXCEPT ![thread] =
                 IF Len(injection_logs) > max_log_entries
                 THEN LogOp("assign", LastSlice(injection_logs, max_log_entries))
                 ELSE LogOp("dump", <<>>)]
            /\ UNCHANGED <<injection_logs, log_file>>
            /\ last' = Step("_save_logs", thread, "checked")
       [] log_ops[thread].pc = "assign" ->
            /\ written
            /\ injection_logs' = log_ops[thread].slice
            /\ log_ops' = [log_ops EXCEPT ![thread] = LogOp("dump", <<>>)]
            /\ UNCHANGED log_file
            /\ last' = Step("_save_logs", thread, "truncated")
       [] log_ops[thread].pc = "dump" ->
            /\ log_file' = IF written THEN injection_logs ELSE log_file
            /\ log_ops' = [log_ops EXCEPT ![thread] = LogOp("idle", <<>>)]
            /\ UNCHANGED injection_logs
            /\ last' = Step("_save_logs", thread, IF written THEN "persisted" ELSE "write_failed")
  /\ UNCHANGED <<wi_appended, wi_cleared>>
  /\ LogFrame

LogNext ==
  \/ \E thread \in LogThreads, written \in BOOLEAN : inject_random_word(thread, written)
  \/ clear_logs
  \/ \E thread \in LogThreads, written \in BOOLEAN : _save_logs(thread, written)

\* ------------------------------------ core/error_handler.py and app.py
\* ErrorHandler.ERROR_CODES: the status code of each error code
ERROR_CODES ==
  [INTERNAL_ERROR |-> 500, VALIDATION_ERROR |-> 400, NOT_FOUND |-> 404, UNAUTHORIZED |-> 401,
   FORBIDDEN |-> 403, CONFLICT |-> 409, CONTAINER_ERROR |-> 500, AGENT_ERROR |-> 500,
   AUTH_ERROR |-> 401, PERMISSION_ERROR |-> 403, CONFIG_ERROR |-> 500, NETWORK_ERROR |-> 503,
   TIMEOUT_ERROR |-> 504]

\* a response: the envelope {status: "error", error_code, message, ...} as
\* JSON, or a body that is not the envelope
Envelope(status_code, error_code, message) ==
  [status_code |-> status_code, envelope |-> TRUE, status |-> "error",
   error_code |-> error_code, message |-> message]
NoEnvelope(status_code, body) ==
  [status_code |-> status_code, envelope |-> FALSE, status |-> "none",
   error_code |-> "none", message |-> body]

\* ErrorHandler.create_error_response; custom_message is None ("None"), ""
\* or a text, status_code is None (0) or a number
create_error_response(error_code, custom_message, status_code) ==
  LET code == IF error_code \notin DOMAIN ERROR_CODES THEN "INTERNAL_ERROR" ELSE error_code
  IN Envelope(IF status_code # 0 THEN status_code ELSE ERROR_CODES[code], code,
              IF custom_message \notin {"None", ""} THEN custom_message ELSE "default_message")

\* ErrorHandler._map_http_exception
_map_http_exception(status_code) ==
  CASE status_code = 400 -> "VALIDATION_ERROR"
    [] status_code = 401 -> "UNAUTHORIZED"
    [] status_code = 403 -> "FORBIDDEN"
    [] status_code = 404 -> "NOT_FOUND"
    [] status_code = 409 -> "CONFLICT"
    [] OTHER -> "INTERNAL_ERROR"

\* what a request can raise out of its route: a RequestValidationError, an
\* HTTPException with a status, or another exception
ExceptionClasses ==
  {"ValueError", "PermissionError", "TimeoutError", "ConnectionError", "TypeError"}
Raised(class, status_code, text) == [class |-> class, status_code |-> status_code, text |-> text]
Raisable ==
  [class : {"RequestValidationError"}, status_code : {0}, text : {"errors"}]
    \cup [class : {"HTTPException"}, status_code : {400, 401, 403, 404, 409, 500},
          text : {"detail"}]
    \cup [class : ExceptionClasses, status_code : {0}, text : {"", "text"}]

\* ErrorHandler.handle_exception for an exception that is no HTTPException
handle_exception(exc) ==
  create_error_response(
    CASE exc.class = "ValueError" -> "VALIDATION_ERROR"
      [] exc.class = "PermissionError" -> "PERMISSION_ERROR"
      [] exc.class = "TimeoutError" -> "TIMEOUT_ERROR"
      [] exc.class = "ConnectionError" -> "NETWORK_ERROR"
      [] OTHER -> "INTERNAL_ERROR",
    exc.text, 0)

\* the handlers of a FastAPI application nothing was registered with
DefaultHandlers ==
  [RequestValidationError |-> "request_validation_exception_handler",
   HTTPException |-> "http_exception_handler_default",
   Exception |-> "none"]

\* setup_error_handlers(app)
setup_error_handlers(handlers) ==
  [handlers EXCEPT !["RequestValidationError"] = "validation_exception_handler",
                   !["HTTPException"] = "http_exception_handler",
                   !["Exception"] = "general_exception_handler"]

\* app.add_exception_handler(exc_class, handler)
add_exception_handler(handlers, exc_class, handler) == [handlers EXCEPT ![exc_class] = handler]

\* the class whose handler serves an exception
handled_as(exc) ==
  IF exc.class \in {"RequestValidationError", "HTTPException"} THEN exc.class ELSE "Exception"

\* the response the application makes of an exception raised by a route.
\* slowapi's _rate_limit_exceeded_handler reads exc.detail, which only a
\* RateLimitExceeded has: for another exception it raises in its turn and the
\* server answers "Internal Server Error" in plain text, as it does when no
\* handler is registered.
respond(handlers, exc) ==
  LET handler == handlers[handled_as(exc)]
  IN CASE handler = "validation_exception_handler" ->
            create_error_response("VALIDATION_ERROR", "custom", 0)
       [] handler = "request_validation_exception_handler" ->
            NoEnvelope(422, "detail")
       [] handler = "http_exception_handler" ->
            create_error_response(_map_http_exception(exc.status_code), exc.text, 0)
       [] handler = "http_exception_handler_default" ->
            NoEnvelope(exc.status_code, "detail")
       [] handler = "general_exception_handler" -> handle_exception(exc)
       [] handler = "_rate_limit_exceeded_handler" -> NoEnvelope(500, "plain_text")
       [] OTHER -> NoEnvelope(500, "plain_text")

\* ------------------------------------------ api/system.py: chat_completions
ChatModels == {"m1", "m2"}
ChatMessages == {<<>>, <<"q">>}

\* f"chat_completion:{model}:{hash(str(messages))}"
chat_cache_key_by_messages(model, messages) == <<"chat_completion", "any", messages>>
chat_cache_key(model, messages) == <<"chat_completion", model, messages>>
ChatKeys == {chat_cache_key(model, messages) : model \in ChatModels, messages \in ChatMessages}

\* what the upstream model answers to these messages
ChatResult(model, messages) == [model |-> model, messages |-> messages]
NoChatResult == [model |-> "none", messages |-> <<>>]

\* a call of chat_completions: pc is "idle" (no call), "get", "upstream" or
\* "set", the await it is suspended at; cache_key is its local variable,
\* <<>> while unbound
NoChat ==
  [pc |-> "idle", model |-> "none", messages |-> <<>>, stream |-> FALSE, cache_key |-> <<>>,
   result |-> NoChatResult]
ChatCall(pc, model, messages, stream, key, result) ==
  [pc |-> pc, model |-> model, messages |-> messages, stream |-> stream, cache_key |-> key,
   result |-> result]
ChatReturn(kind, result) == [kind |-> kind, result |-> result]

\* an open streaming response, and the frames "data: ...\n\n" of it
NoStream == [state |-> "none", frames |-> <<>>]
DataFrame(content) == [kind |-> "data", content |-> content]
DoneFrame == [kind |-> "done", content |-> "[DONE]"]
ErrorFrame == [kind |-> "error", content |-> "internal_error"]

WebConstructed ==
  /\ exception_handlers = DefaultHandlers
  /\ chat_requests = [id \in 1..MaxRequests |-> NoChat]
  /\ chat_cache = [key \in ChatKeys |-> NoChatResult]
  /\ sse = NoStream

WebFrame ==
  /\ ContainerIdle
  /\ UNCHANGED <<appVars, poolVars, cacheVars, monitorVars, metricsVars, managerVars, initVars,
                 whisperVars>>

\* create_application, as far as the handling of errors goes
create_application ==
  /\ exception_handlers' =
       add_exception_handler(setup_error_handlers(exception_handlers),
                             "Exception", "_rate_limit_exceeded_handler")
  /\ last' = Step("create_application", "none", "none")
  /\ UNCHANGED chatVars
  /\ WebFrame

\* the routes of the six routers that take a body or a current_user
ErrorRoutes ==
  {"/api/auth/login", "/api/container/exec", "/api/observer/start", "/api/decision/manual",
   "/api/whisper/inject", "/v1/chat/completions"}

\* a request whose route, or a dependency of it, raises
FailingRequest(route, exc) ==
  /\ exception_handlers # DefaultHandlers
  /\ last' = Step("request", [route |-> route, raised |-> exc],
                  respond(exception_handlers, exc))
  /\ UNCHANGED <<exception_handlers, chatVars>>
  /\ WebFrame

\* ErrorHandler.create_error_response called with a code of the caller's
CreateErrorResponse(error_code, custom_message, status_code) ==
  /\ last' = Step("create_error_response",
                  [error_code |-> error_code, custom_message |-> custom_message,
                   status_code |-> status_code],
                  create_error_response(error_code, custom_message, status_code))
  /\ UNCHANGED <<exception_handlers, chatVars>>
  /\ WebFrame

ErrorNext ==
  \/ create_application
  \/ \E route \in ErrorRoutes, exc \in Raisable : FailingRequest(route, exc)
  \/ \E error_code \in DOMAIN ERROR_CODES \cup {"TEAPOT"}, custom_message \in {"None", "", "text"},
        status_code \in {0, 418} :
       CreateErrorResponse(error_code, custom_message, status_code)

\* the handler's "except Exception": record_error, log_event, HTTPException(500)
ChatFrame ==
  /\ ContainerIdle
  /\ UNCHANGED <<appVars, poolVars, cacheVars, monitorVars, managerVars, initVars, whisperVars,
                 exception_handlers, response_times, cpu_usage, memory_usage>>

\* chat_completions from the request to its first await, or to its return:
\* a body that fails validation and a log_event that raises end in the
\* handler's except; a streaming request gets its StreamingResponse at once
chat_completions(id, model, messages, stream, valid, query_user) ==
  LET failed == ~valid \/ log_event_raises(current_user(query_user))
      arg == [request |-> id, model |-> model, messages |-> messages, stream |-> stream,
              key |-> <<>>]
  IN
  /\ chat_requests[id].pc = "idle"
  /\ failed => error_counts < MaxErrors
  /\ error_counts' = IF failed THEN error_counts + 1 ELSE error_counts
  /\ IF failed
     THEN /\ UNCHANGED chat_requests
          /\ last' = Step("chat_completions", arg, ChatReturn("error_500", NoChatResult))
     ELSE IF ~stream /\ messages # <<>>
     THEN /\ chat_requests' = [chat_requests EXCEPT ![id] =
               ChatCall("get", model, messages, stream, chat_cache_key(model, messages),
                        NoChatResult)]
          /\ last' = Step("chat_completions", arg, ChatReturn("awaits_get", NoChatResult))
     ELSE IF stream
     THEN /\ UNCHANGED chat_requests
          /\ last' = Step("chat_completions", arg, ChatReturn("streaming", NoChatResult))
     ELSE /\ chat_requests' = [chat_requests EXCEPT ![id] =
               ChatCall("upstream", model, messages, stream, <<>>, NoChatResult)]
          /\ last' = Step("chat_completions", arg, ChatReturn("awaits_upstream", NoChatResult))
  /\ UNCHANGED <<chat_cache, sse>>
  /\ ChatFrame

\* "await cache_manager.get(cache_key)" returns: a hit is the response
cache_get_returns(id) ==
  LET call == chat_requests[id]
      cached_result == chat_cache[call.cache_key]
      arg == [request |-> id, model |-> call.model, messages |-> call.messages,
              stream |-> call.stream, key |-> call.cache_key]
  IN
  /\ call.pc = "get"
  /\ IF cached_result # NoChatResult
     THEN /\ chat_requests' = [chat_requests EXCEPT ![id] = NoChat]
          /\ last' = Step("cache_get", arg, ChatReturn("cached", cached_result))
     ELSE /\ chat_requests' = [chat_requests EXCEPT ![id].pc = "upstream"]
          /\ last' = Step("cache_get", arg, ChatReturn("awaits_upstream", NoChatResult))
  /\ UNCHANGED <<chat_cache, sse, error_counts>>
  /\ ChatFrame

\* agent_manager.chat_completion(stream=False) yields its result, or raises;
\* with messages the handler then awaits cache_manager.set(cache_key, ...),
\* and an unbound cache_key would be an UnboundLocalError
upstream_returns(id, ok) ==
  LET call == chat_requests[id]
      result == ChatResult(call.model, call.messages)
      arg == [request |-> id, model |-> call.model, messages |-> call.messages,
              stream |-> call.stream, key |-> call.cache_key]
      failed == ~ok \/ (call.messages # <<>> /\ call.cache_key = <<>>)
  IN
  /\ call.pc = "upstream"
  /\ failed => error_counts < MaxErrors
  /\ error_counts' = IF failed THEN error_counts + 1 ELSE error_counts
  /\ IF failed
     THEN /\ chat_requests' = [chat_requests EXCEPT ![id] = NoChat]
          /\ last' = Step("chat_completions", arg, ChatReturn("error_500", NoChatResult))
     ELSE IF call.messages # <<>>
     THEN /\ chat_requests' = [chat_requests EXCEPT ![id].pc = "set", ![id].result = result]
          /\ last' = Step("chat_completions", arg, ChatReturn("awaits_set", NoChatResult))
     ELSE /\ chat_requests' = [chat_requests EXCEPT ![id] = NoChat]
          /\ last' = Step("chat_completions", arg, ChatReturn("result", result))
  /\ UNCHANGED <<chat_cache, sse>>
  /\ ChatFrame

\* "await cache_manager.set(cache_key, result, ttl=300)" returns, and the
\* handler returns the result
cache_set_returns(id) ==
  LET call == chat_requests[id]
      arg == [request |-> id, model |-> call.model, messages |-> call.messages,
              stream |-> call.stream, key |-> call.cache_key]
  IN
  /\ call.pc = "set"
  /\ chat_cache' = [chat_cache EXCEPT ![call.cache_key] = call.result]
  /\ chat_requests' = [chat_requests EXCEPT ![id] = NoChat]
  /\ last' = Step("cache_set", arg, ChatReturn("result", call.result))
  /\ UNCHANGED <<sse, error_counts>>
  /\ ChatFrame

\* the entry expires, or is evicted
chat_entry_expires(key) ==
  /\ chat_cache[key] # NoChatResult
  /\ chat_cache' = [chat_cache EXCEPT ![key] = NoChatResult]
  /\ last' = Step("expires", key, "none")
  /\ UNCHANGED <<chat_requests, sse, error_counts>>
  /\ ChatFrame

ChatNext ==
  \/ \E id \in 1..MaxRequests, model \in ChatModels, messages \in ChatMessages,
        stream \in BOOLEAN, valid \in BOOLEAN, query_user \in QueryUsers :
       chat_completions(id, model, messages, stream, valid, query_user)
  \/ \E id \in 1..MaxRequests : cache_get_returns(id)
  \/ \E id \in 1..MaxRequests, ok \in BOOLEAN : upstream_returns(id, ok)
  \/ \E id \in 1..MaxRequests : cache_set_returns(id)
  \/ \E key \in ChatKeys : chat_entry_expires(key)

\* the StreamingResponse of a streaming request starts to iterate generate()
stream_starts ==
  /\ sse.state # "open"
  /\ sse' = [state |-> "open", frames |-> <<>>]
  /\ last' = Step("stream_starts", "none", "none")
  /\ UNCHANGED <<chat_requests, chat_cache, error_counts>>
  /\ ChatFrame

\* what the upstream stream does next: a chunk with this content, its end, or
\* an exception (at its creation or between chunks)
StreamEvents ==
  [kind : {"chunk"}, content : {"", "a", "b"}] \cup [kind : {"end", "raise"}, content : {""}]

\* chat_completions.generate runs to its next frame: agent_manager passes on
\* the chunks whose content is not empty, each becomes a data frame; after the
\* last of them comes [DONE]; an exception is answered by record_error,
\* log_event and an error frame, after which the generator ends
generate(event) ==
  /\ sse.state = "open"
  /\ CASE event.kind = "chunk" ->
            /\ Len(sse.frames) < MaxFrames
            /\ sse' = IF event.content # ""
                      THEN [sse EXCEPT !.frames = Append(@, DataFrame(event.content))]
                      ELSE sse
            /\ UNCHANGED error_counts
       [] event.kind = "end" ->
            /\ sse' = [state |-> "closed", frames |-> Append(sse.frames, DoneFrame)]
            /\ UNCHANGED error_counts
       [] event.kind = "raise" ->
            /\ error_counts < MaxErrors
            /\ error_counts' = error_counts + 1
            /\ sse' = [state |-> "closed", frames |-> Append(sse.frames, ErrorFrame)]
  /\ last' = Step("generate", event, "none")
  /\ UNCHANGED <<chat_requests, chat_cache>>
  /\ ChatFrame

StreamNext ==
  \/ stream_starts
  \/ \E event \in StreamEvents : generate(event)

\* --------------------------------------------- adb_agent_controller/ai.py
\* AIPlanner._build_client: a client, when a key is configured and the
\* openai package is installed
_build_client(api_key, installed) == api_key /\ installed

\* what client.chat.completions.create does: it raises (the network, the
\* server or the key fails), or answers without a choice, or with a message
\* whose content is empty, blank, a JSON object with summary and steps, one
\* without steps, one whose steps are a number, a JSON array, or plain text
CreateOutcomes ==
  {"raises", "no_choices", "empty", "blank", "json_plan", "json_no_steps", "json_steps_number",
   "json_array", "text"}

\* the plans and the exception that plan can end with; memories is the
\* number of memory entries the plan was made from
PlanOf(kind, memories) == [kind |-> kind, memories |-> memories]
NoPlan == PlanOf("None", 0)

\* AIPlanner._remote_plan
_remote_plan(client, outcome, memories) ==
  IF ~client THEN NoPlan
  ELSE CASE outcome = "raises" -> PlanOf("raised", 0)
         \* response.choices[0]: IndexError
         [] outcome = "no_choices" -> PlanOf("raised", 0)
         [] outcome = "json_plan" -> PlanOf("remote", memories)
         \* payload.get on a list: AttributeError; iterating a number: TypeError
         [] outcome \in {"json_array", "json_steps_number"} -> PlanOf("raised", 0)
         \* no plan in the JSON, or no JSON: the lines of the message, if any
         [] outcome \in {"json_no_steps", "text"} -> PlanOf("remote_text", memories)
         [] OTHER -> NoPlan

\* AIPlanner._offline_plan
_offline_plan(memories) == PlanOf("offline", memories)

\* AIPlanner.plan
plan(mode, client, outcome, memories) ==
  LET use_remote == mode = "remote" \/ (mode = "auto" /\ client)
      remote == _remote_plan(client, outcome, memories)
  IN IF use_remote /\ client /\ remote # NoPlan THEN remote ELSE _offline_plan(memories)

PlannerFrame ==
  /\ ContainerIdle
  /\ UNCHANGED <<appVars, poolVars, cacheVars, svcVars>>

\* the command-line tool builds a planner and asks it for a plan
PlanCalled(mode, api_key, installed, outcome, memories) ==
  /\ last' = Step("plan",
                  [mode |-> mode, client |-> _build_client(api_key, installed),
                   api_key |-> api_key, outcome |-> outcome, memories |-> memories],
                  plan(mode, _build_client(api_key, installed), outcome, memories))
  /\ PlannerFrame

PlannerNext ==
  \E mode \in {"remote", "offline", "auto"}, api_key \in BOOLEAN, installed \in BOOLEAN,
     outcome \in CreateOutcomes, memories \in 0..2 :
    PlanCalled(mode, api_key, installed, outcome, memories)

\* ------------------------------------------------------ initialization.py
\* AppInitializer.__init__
InitializerConstructed ==
  /\ components = {}
  /\ init_pc = 1
  /\ init_status = "starting"
  /\ cleaned = {}
  /\ sweep_tasks = 0

StartupStep(component, kind) == [component |-> component, kind |-> kind]

\* initialize_components: the statements that can raise, in order; a
\* constructor adds its component to self.components when it returns
Startup ==
  << StartupStep("cache_manager", "construct"),
     StartupStep("connection_pool", "construct"),
     StartupStep("connection_pool", "initialize"),
     StartupStep("performance_monitor", "construct"),
     StartupStep("auth_manager", "construct"),
     StartupStep("validation_manager", "construct"),
     StartupStep("audit_logger", "construct"),
     StartupStep("agent_manager", "construct"),
     StartupStep("container_manager", "construct"),
     StartupStep("observer", "construct"),
     StartupStep("whisper_injection", "construct"),
     StartupStep("whisper_injection", "start_injection"),
     StartupStep("decision_engine", "construct") >>

\* the components cleanup_components stops or closes
Closers == {"decision_engine", "whisper_injection", "agent_manager", "cache_manager",
            "connection_pool", "performance_monitor"}

\* what asyncio.gather(*cleanup_tasks, return_exceptions=True) awaits
Gathered == {"decision_engine", "agent_manager", "cache_manager", "connection_pool",
             "performance_monitor"}

\* AgentManager defines no close(): the expression that builds its cleanup
\* task raises AttributeError
has_close(component) == component # "agent_manager"

\* cleanup_components over the components held, the stops and closes in
\* failing raising: what it raises and which stops and closes ran to completion
cleanup_components(held, failing) ==
  LET whisper == held \cap {"whisper_injection"}
  IN IF whisper \cap failing # {}
     THEN \* stop_injection is called outside any try
          [raised |-> "whisper_injection", completed |-> {}]
     ELSE IF \E component \in held \cap Gathered : ~has_close(component)
     THEN \* the coroutines made so far are never awaited
          [raised |-> "AttributeError", completed |-> whisper]
     ELSE [raised |-> "none", completed |-> whisper \cup ((held \cap Gathered) \ failing)]

\* what the statement of a step starts before it returns:
\* cache_manager.initialize() makes the sweep task and drops it,
\* performance_monitor.start_monitoring() makes the sampling task,
\* whisper_injection.start_injection() makes the scheduler thread
starts(step) ==
  /\ sweep_tasks' = IF step = StartupStep("cache_manager", "construct")
                    THEN sweep_tasks + 1 ELSE sweep_tasks
  /\ IF step = StartupStep("performance_monitor", "construct") /\ ~pm_is_monitoring
     THEN LET id == CHOOSE id \in FreeTasks : \A other \in FreeTasks : id <= other
          IN /\ pm_is_monitoring' = TRUE
             /\ pm_monitor_task' = id
             /\ pm_tasks' = [pm_tasks EXCEPT ![id] = "alive"]
     ELSE UNCHANGED <<pm_is_monitoring, pm_monitor_task, pm_tasks>>
  /\ IF step = StartupStep("whisper_injection", "start_injection")
          /\ wi_enabled /\ ~wi_is_running
     THEN /\ wi_is_running' = TRUE
          /\ schedule_jobs' = schedule_jobs + 1
          /\ wi_threads' =
               BagOfAll(LAMBDA thread : SchedulerThread(FALSE, thread.pc), wi_threads)
                 (+) SetToBag({SchedulerThread(TRUE, "sleep")})
     ELSE UNCHANGED <<wi_is_running, schedule_jobs, wi_threads>>
  /\ UNCHANGED de_is_running

\* the scheduler threads a join of five seconds leaves alive: a thread asleep
\* wakes within a second, reads is_running and returns; a thread inside a job
\* may outlast the join
outlasting_join(threads) ==
  LET in_job == {thread \in BagToSet(threads) : thread.pc = "in_job"}
  IN [thread \in in_job |-> threads[thread]]

\* what the stops and closes that ran to completion stop: stop_decision_loop
\* clears is_running, stop_injection clears is_running and the schedule and
\* joins the thread, stop_monitoring cancels the sampling task and awaits it;
\* cache_manager.close() closes the Redis client and connection_pool.close()
\* the pools, neither touches a task
stops(completed) ==
  /\ de_is_running' = IF "decision_engine" \in completed THEN FALSE ELSE de_is_running
  /\ IF "whisper_injection" \in completed /\ wi_is_running
     THEN /\ wi_is_running' = FALSE
          /\ schedule_jobs' = 0
          /\ wi_threads' = outlasting_join(wi_threads)
     ELSE UNCHANGED <<wi_is_running, schedule_jobs, wi_threads>>
  /\ IF "performance_monitor" \in completed
     THEN /\ pm_is_monitoring' = FALSE
          /\ pm_tasks' = IF pm_monitor_task = 0 THEN pm_tasks
                         ELSE [pm_tasks EXCEPT ![pm_monitor_task] =
                                 IF @ = "none" THEN "none" ELSE "done"]
     ELSE UNCHANGED <<pm_is_monitoring, pm_tasks>>
  /\ UNCHANGED <<pm_monitor_task, sweep_tasks>>

InitializerFrame ==
  /\ ContainerIdle
  /\ UNCHANGED <<observerVars, decisions, deTask, audit_enabled, poolVars, cacheVars, pm_stops,
                 metricsVars, managerVars, wi_enabled, wi_handler, vocabularyVars, logVars,
                 webVars>>

\* initialize_components runs its next statement; when that raises, the
\* except clause awaits cleanup_components and raises again
InitializeStep(fails, failing) ==
  /\ init_status = "starting"
  /\ LET step == Startup[init_pc]
         result == cleanup_components(components, failing)
     IN IF ~fails
        THEN /\ failing = {}
             /\ components' = IF step.kind = "construct"
                              THEN components \cup {step.component} ELSE components
             /\ init_pc' = init_pc + 1
             /\ init_status' = IF init_pc = Len(Startup) THEN "complete" ELSE "starting"
             /\ UNCHANGED cleaned
             /\ starts(step)
             /\ last' = Step("initialize_components", [step |-> step, failing |-> failing],
                             [raised |-> "none", completed |-> {}])
        ELSE /\ init_status' = "failed"
             /\ cleaned' = result.completed
             /\ stops(result.completed)
             /\ UNCHANGED <<components, init_pc>>
             /\ last' = Step("initialize_components", [step |-> step, failing |-> failing],
                             [raised |-> IF result.raised = "none"
                                         THEN step.component ELSE result.raised,
                              completed |-> result.completed])
  /\ InitializerFrame

\* shutdown_application: cleanup_components on the components startup returned
ShutdownApplication(failing) ==
  /\ init_status \in {"complete", "closing"}
  /\ init_status' = "shut_down"
  /\ cleaned' = cleanup_components(components, failing).completed
  /\ stops(cleanup_components(components, failing).completed)
  /\ UNCHANGED <<components, init_pc>>
  /\ last' = Step("cleanup_components", [step |-> Startup[Len(Startup)], failing |-> failing],
                  cleanup_components(components, failing))
  /\ InitializerFrame

InitializerNext ==
  \/ \E fails \in BOOLEAN, failing \in SUBSET (Closers \cap components) :
       InitializeStep(fails, failing)
  \/ \E failing \in SUBSET (Closers \cap components) : ShutdownApplication(failing)

\* --------------------------------------------- app.py: the lifecycle events
\* what an event of the application leaves alone
LifecycleFrame ==
  /\ ContainerIdle
  /\ UNCHANGED <<observerVars, audit_enabled, poolVars, cacheVars, monitorVars, metricsVars,
                 managerVars, whisperVars, webVars, components, init_pc, cleaned, sweep_tasks>>

\* startup_event: the decision loop starts when the configuration enables it
startup_event(enabled) ==
  /\ init_status = "complete"
  /\ init_status' = "serving"
  /\ IF enabled THEN start_decision_loop ELSE UNCHANGED decisionVars
  /\ last' = Step("startup_event", enabled, "none")
  /\ LifecycleFrame

\* shutdown_event: stop_decision_loop and nothing else
shutdown_event ==
  /\ init_status = "serving"
  /\ init_status' = "closing"
  /\ stop_decision_loop
  /\ last' = Step("shutdown_event", "none", stop_decision_loop_returns)
  /\ LifecycleFrame

\* POST /api/observer/start and /stop while the application serves
ObserverRoute ==
  /\ init_status = "serving"
  /\ StartMonitoring \/ StopMonitoring

\* a background activity takes a step: a loop wakes, a job returns, the
\* sweep makes a pass.  What a loop does between two tests of its flag does
\* not matter to its termination: each loop is given one outcome, the
\* screenshot that cannot be read, the reply without a command, the sample
\* that cannot be taken
BackgroundStep ==
  \/ \E task \in BagToSet(obsTask) : MonitoringLoopStep(task, "read_raises")
  \/ \E task \in BagToSet(deTask) : DecisionLoopStep(task)
  \/ \E task \in BagToSet(deTask) :
       ModelReply(task, [kind |-> "no_command", command |-> <<>>])
  \/ \E id \in 1..MaxTasks : _monitor_loop(id, NoSample)
  \/ \E thread \in BagToSet(wi_threads), due \in BOOLEAN : _run_scheduler(thread, due)
  \/ \E thread \in BagToSet(wi_threads) : JobReturns(thread)
  \/ sweep_tasks > 0 /\ _cleanup_memory_cache({})

ShutdownNext ==
  \/ \E fails \in BOOLEAN, failing \in SUBSET (Closers \cap components) :
       InitializeStep(fails, failing)
  \/ \E enabled \in BOOLEAN : startup_event(enabled)
  \/ ObserverRoute
  \/ BackgroundStep
  \/ shutdown_event
  \/ \E failing \in SUBSET (Closers \cap components) : ShutdownApplication(failing)

\* the state of these components after construction
ServicesConstructed ==
  /\ PerformanceMonitorConstructed
  /\ ManagerConstructed(FALSE, {})
  /\ InitializerConstructed
  /\ WhisperConstructed(TRUE, <<>>, 2)
  /\ WebConstructed

\* ------------------------------------------------------- specifications
\* histories the Observer can have left behind
ObservedHistories == {<<>>, <<FailedObservation("screenshot"), Observation("ok")>>}

Init ==
  /\ obs_is_running = FALSE
  /\ observations = <<>>
  /\ obsTask = NoTasks
  /\ de_is_running = FALSE
  /\ decisions = <<>>
  /\ deTask = NoTasks
  /\ exec_call = NoCall
  /\ engine_spawn = NoCall
  /\ audit_enabled \in BOOLEAN
  /\ PoolConstructed
  /\ CacheConstructed(FALSE)
  /\ ServicesConstructed
  /\ last = Step("construct", "none", "none")

\* a caller in the process calls engine._validate_command(head + tail)
ValidateCommand(head, tail) ==
  /\ last' = Step("_validate_command", head \o tail, ComposedValidateTable[head \o tail])
  /\ ContainerIdle
  /\ UNCHANGED <<observerVars, decisionVars, audit_enabled, poolVars, cacheVars, svcVars>>

ValidatorNext == \E head \in CommandHeads, tail \in CommandTails : ValidateCommand(head, tail)

\* the connection pools and the container status query over them
PoolInit ==
  /\ obs_is_running = FALSE
  /\ observations = <<>>
  /\ obsTask = NoTasks
  /\ de_is_running = FALSE
  /\ decisions = <<>>
  /\ deTask = NoTasks
  /\ exec_call = NoCall
  /\ engine_spawn = NoCall
  /\ audit_enabled = FALSE
  /\ PoolConstructed
  /\ CacheConstructed(FALSE)
  /\ ServicesConstructed
  /\ last = Step("construct", "none", "none")

PoolSpec == PoolInit /\ [][PoolNext]_vars

\* the cache manager, its remote tier in use or not
CacheInit ==
  /\ obs_is_running = FALSE
  /\ observations = <<>>
  /\ obsTask = NoTasks
  /\ de_is_running = FALSE
  /\ decisions = <<>>
  /\ deTask = NoTasks
  /\ exec_call = NoCall
  /\ engine_spawn = NoCall
  /\ audit_enabled = FALSE
  /\ PoolConstructed
  /\ \E redis \in BOOLEAN : CacheConstructed(redis)
  /\ ServicesConstructed
  /\ last = Step("construct", "none", "none")

CacheSpec == CacheInit /\ [][CacheNext]_vars

\* a function decorated with cache_manager.cached()
DecoratorSpec == CacheInit /\ [][DecoratorNext]_vars

\* the validator alone
ValidatorSpec == Init /\ [][ValidatorNext]_vars

\* the Container Manager's operations, built with or without the pool
ManagerInit ==
  /\ obs_is_running = FALSE
  /\ observations = <<>>
  /\ obsTask = NoTasks
  /\ de_is_running = FALSE
  /\ decisions = <<>>
  /\ deTask = NoTasks
  /\ exec_call = NoCall
  /\ engine_spawn = NoCall
  /\ audit_enabled = FALSE
  /\ PoolConstructed
  /\ CacheConstructed(FALSE)
  /\ PerformanceMonitorConstructed
  /\ \E pool \in BOOLEAN, configured \in {{}, {"-e", "-v", "-p"}} :
       ManagerConstructed(pool, configured)
  /\ InitializerConstructed
  /\ WebConstructed
  /\ WhisperConstructed(TRUE, <<>>, 2)
  /\ last = Step("construct", "none", "none")

ManagerSpec == ManagerInit /\ [][ManagerNext]_vars

\* startup and shutdown of the application
InitializerSpec == Init /\ [][InitializerNext]_vars

\* the service from its construction to the end of its shutdown
ShutdownSpec == Init /\ [][ShutdownNext]_vars

\* the whisper injection manager: its schedule and its vocabulary
WhisperInit ==
  /\ obs_is_running = FALSE
  /\ observations = <<>>
  /\ obsTask = NoTasks
  /\ de_is_running = FALSE
  /\ decisions = <<>>
  /\ deTask = NoTasks
  /\ exec_call = NoCall
  /\ engine_spawn = NoCall
  /\ audit_enabled = FALSE
  /\ PoolConstructed
  /\ CacheConstructed(FALSE)
  /\ PerformanceMonitorConstructed
  /\ ManagerConstructed(FALSE, {})
  /\ InitializerConstructed
  /\ WebConstructed
  /\ \E enabled \in BOOLEAN, words \in {<<>>, << <<"a">> >>, << <<" ", "a">>, <<"b">> >>} :
       WhisperConstructed(enabled, words, 2)
  /\ last = Step("construct", "none", "none")

WhisperSpec == WhisperInit /\ [][WhisperNext]_vars

\* the injection log of a manager that has been started, under the job
\* and the handlers
LogInit ==
  /\ obs_is_running = FALSE
  /\ observations = <<>>
  /\ obsTask = NoTasks
  /\ de_is_running = FALSE
  /\ decisions = <<>>
  /\ deTask = NoTasks
  /\ exec_call = NoCall
  /\ engine_spawn = NoCall
  /\ audit_enabled = FALSE
  /\ PoolConstructed
  /\ CacheConstructed(FALSE)
  /\ PerformanceMonitorConstructed
  /\ ManagerConstructed(FALSE, {})
  /\ InitializerConstructed
  /\ wi_enabled = TRUE
  /\ wi_is_running = TRUE
  /\ schedule_jobs = 1
  /\ wi_threads = SetToBag({SchedulerThread(TRUE, "in_job")})
  /\ wi_handler = "idle"
  /\ vocabulary \in {<<>>, << <<"a">> >>}
  /\ vocabulary_file = vocabulary
  /\ injection_logs = <<>>
  /\ log_file = <<>>
  /\ max_log_entries \in 0..2
  /\ log_ops = [thread \in LogThreads |-> LogOp("idle", <<>>)]
  /\ wi_appended = 0
  /\ wi_cleared = 0
  /\ WebConstructed
  /\ last = Step("construct", "none", "none")

LogSpec == LogInit /\ [][LogNext]_vars

\* the Performance Monitor after start_monitoring, its loop sampling
HealthInit ==
  /\ obs_is_running = FALSE
  /\ observations = <<>>
  /\ obsTask = NoTasks
  /\ de_is_running = FALSE
  /\ decisions = <<>>
  /\ deTask = NoTasks
  /\ exec_call = NoCall
  /\ engine_spawn = NoCall
  /\ audit_enabled = FALSE
  /\ PoolConstructed
  /\ CacheConstructed(FALSE)
  /\ pm_is_monitoring = TRUE
  /\ pm_monitor_task = 1
  /\ pm_tasks = [id \in 1..MaxTasks |-> IF id = 1 THEN "alive" ELSE "none"]
  /\ pm_stops = EmptyBag
  /\ response_times = <<>>
  /\ cpu_usage = <<>>
  /\ memory_usage = <<>>
  /\ error_counts = 0
  /\ ManagerConstructed(FALSE, {})
  /\ InitializerConstructed
  /\ WhisperConstructed(TRUE, <<>>, 2)
  /\ WebConstructed
  /\ last = Step("construct", "none", "none")

HealthSpec == HealthInit /\ [][HealthNext]_vars
InstrumentSpec == HealthInit /\ [][InstrumentNext]_vars

\* the application made by create_application, and the errors it answers
ErrorSpec == Init /\ [][ErrorNext]_vars

\* concurrent calls of chat_completions over the cache, the audit log enabled
ChatInit == Init /\ audit_enabled
ChatSpec == ChatInit /\ [][ChatNext]_vars

\* one streaming response after the other
StreamSpec == Init /\ [][StreamNext]_vars

\* the planner of the ADB controller
PlannerSpec == Init /\ [][PlannerNext]_vars

\* the performance monitor alone
MonitorSpec == Init /\ [][MonitorNext]_vars

\* the Observer alone
ObserverSpec == Init /\ [][ObserverNext]_vars

\* the Decision Engine over an Observer that is not cycling
DecisionInit ==
  /\ obs_is_running = FALSE
  /\ observations \in ObservedHistories
  /\ obsTask = NoTasks
  /\ de_is_running = FALSE
  /\ decisions = <<>>
  /\ deTask = NoTasks
  /\ exec_call = NoCall
  /\ engine_spawn = NoCall
  /\ audit_enabled = FALSE
  /\ PoolConstructed
  /\ CacheConstructed(FALSE)
  /\ ServicesConstructed
  /\ last = Step("construct", "none", "none")

DecisionSpec == DecisionInit /\ [][DecisionNext]_vars

\* the Decision Engine over the histories of every length up to MaxObserved
ObservedRecords == [i \in 1..MaxObserved |-> Observation(ToString(i))]
ManualInit ==
  /\ obs_is_running = FALSE
  /\ observations \in {SubSeq(ObservedRecords, 1, n) : n \in 0..MaxObserved}
  /\ obsTask = NoTasks
  /\ de_is_running = FALSE
  /\ decisions = <<>>
  /\ deTask = NoTasks
  /\ exec_call = NoCall
  /\ engine_spawn = NoCall
  /\ audit_enabled = FALSE
  /\ PoolConstructed
  /\ CacheConstructed(FALSE)
  /\ ServicesConstructed
  /\ last = Step("construct", "none", "none")

\* manual_decision called with and without observations, the caller's list
\* being empty, short, or longer than what is read from the Observer
ManualNext ==
  \E arg \in ManualArgs \cup {[given |-> TRUE, list |-> ObservedRecords]}, reply \in ModelReplies : \E outcome \in ExecOutcomesOf(reply) :
    manual_decision(arg, reply, outcome)

ManualSpec == ManualInit /\ [][ManualNext]_vars

\* the two histories read through get_recent_observations and
\* get_recent_decisions (GET /api/observer/recent, GET /api/decision/recent)
DecidedRecords == [i \in 1..MaxObserved |-> DecisionRecord(i, NoDecision, NoResult)]
RecentInit ==
  /\ obs_is_running = FALSE
  /\ observations \in {SubSeq(ObservedRecords, 1, n) : n \in 0..MaxObserved}
  /\ obsTask = NoTasks
  /\ de_is_running = FALSE
  /\ decisions \in {SubSeq(DecidedRecords, 1, n) : n \in 0..MaxObserved}
  /\ deTask = NoTasks
  /\ exec_call = NoCall
  /\ engine_spawn = NoCall
  /\ audit_enabled = FALSE
  /\ PoolConstructed
  /\ CacheConstructed(FALSE)
  /\ ServicesConstructed
  /\ last = Step("construct", "none", "none")

GetRecentObservations(limit) ==
  /\ last' = Step("get_recent_observations", limit, get_recent_observations(limit))
  /\ ContainerIdle
  /\ UNCHANGED <<observerVars, decisionVars, audit_enabled, poolVars, cacheVars, svcVars>>

GetRecentDecisions(limit) ==
  /\ last' = Step("get_recent_decisions", limit, get_recent_decisions(limit))
  /\ ContainerIdle
  /\ UNCHANGED <<observerVars, decisionVars, audit_enabled, poolVars, cacheVars, svcVars>>

RecentNext ==
  \/ \E limit \in 0..(MaxObserved + 1) : GetRecentObservations(limit)
  \/ \E limit \in 0..(MaxObserved + 1) : GetRecentDecisions(limit)

RecentSpec == RecentInit /\ [][RecentNext]_vars

\* the Container Manager called directly
ContainerSpec == Init /\ [][ContainerNext]_vars

\* the HTTP routes
RouteSpec == Init /\ [][RouteNext]_vars

\* ================================================================ claims
\* the last record of a history
Latest(history) == history[Len(history)]
\* history' is history with exactly one record appended
OneAppended(history, history2) ==
  /\ Len(history2) = Len(history) + 1
  /\ SubSeq(history2, 1, Len(history)) = history
\* the number of tasks of a bag suspended at pc
TasksAt(tasks, pc) ==
  BagCardinality([task \in {x \in BagToSet(tasks) : x.pc = pc} |-> tasks[task]])

\* ---------------------------------------------------------------------- C1
\* a reply whose command, once stripped, is non-empty and fails _validate_command
RejectedReply(reply) ==
  /\ reply.kind = "string"
  /\ Strip(reply.command) # <<>>
  /\ ~ValidateTable[Strip(reply.command)].ok

\* C1: over scheduled cycles and manual_decision calls, exec_command is called
\* only with a non-empty command that _validate_command accepts; a reply whose
\* command the validator rejects leads to no call of exec_command and to an
\* execution_result with success = false, returned in the cycle's record or in
\* manual_decision's successful return value (nothing is raised).
C1_ExecOnlyValidatedCommands ==
  /\ exec_call.called =>
       /\ exec_call.command # <<>>
       /\ ValidateTable[exec_call.command].ok
  /\ (last.op = "model_reply" /\ RejectedReply(last.arg)) =>
       /\ ~exec_call.called
       /\ decisions # <<>>
       /\ Latest(decisions).kind = "decision"
       /\ Latest(decisions).decision.command = last.arg.command
       /\ Latest(decisions).execution_result.success = FALSE
       /\ Latest(decisions).execution_result.tag = "validation_failed"
  /\ (last.op = "manual_decision" /\ RejectedReply(last.arg.reply)) =>
       /\ ~exec_call.called
       /\ last.ret.success = TRUE
       /\ last.ret.decision.command = last.arg.reply.command
       /\ last.ret.execution_result.success = FALSE
       /\ last.ret.execution_result.tag = "validation_failed"

\* a scheduled cycle has just recorded a command the validator rejected
C1_Witness ==
  /\ last.op = "model_reply"
  /\ RejectedReply(last.arg)
  /\ Latest(decisions).execution_result.success = FALSE

\* ---------------------------------------------------------------------- C2
\* The command filter the claim describes, with the patterns of the security
\* test fixture: ContainerManager has no such filter.
filter_dangerous_commands ==
  << <<"r", "m", "\\s+", "-", "r", "f", "\\s+", "/">>,
     <<"s", "h", "u", "t", "d", "o", "w", "n">>,
     <<"r", "e", "b", "o", "o", "t">> >>
filter_allowed_commands ==
  << <<"^", "l", "s", "\\s+">>, <<"^", "p", "w", "d", "$">>, <<"^", "e", "c", "h", "o", "\\s+">> >>
FilterRejects(command) ==
  \/ \E i \in DOMAIN filter_dangerous_commands : re_search(filter_dangerous_commands[i], command)
  \/ ~(\E i \in DOMAIN filter_allowed_commands : re_search(filter_allowed_commands[i], command))
  \/ Contains(command, <<".", ".">>)
  \/ \E i \in DOMAIN dangerous_chars :
       /\ HasChar(command, dangerous_chars[i])
       /\ ~(dangerous_chars[i] = "&" /\ Contains(command, <<"&", "&">>))

\* C2: a call of exec_command with a command the command filter rejects spawns
\* nothing on the container engine and returns success = false with an error
\* saying it was blocked by security policy.
C2_FilteredCommandNeverReachesEngine ==
  (last.op = "exec_command" /\ FilterRejects(last.arg)) =>
    /\ engine_spawn = NoCall
    /\ last.ret.success = FALSE
    /\ last.ret.outcome = "blocked_by_security_policy"

\* ---------------------------------------------------------------------- C3
\* the command contains a dangerous substring (case-insensitively) or one of
\* the characters ; & | ` $ ( )
NamesDangerousContent(command) ==
  \/ \E i \in DOMAIN request_dangerous_commands :
       Contains(Lower(command), request_dangerous_commands[i])
  \/ \E i \in DOMAIN dangerous_chars : HasChar(command, dangerous_chars[i])

\* C3: a POST /api/container/exec request whose command contains a dangerous
\* substring or an injection character is answered 400 by the validation layer
\* and exec_command is not called for it.
C3_DangerousRequestRejected ==
  (/\ last.op = "request"
   /\ last.arg.route = "/api/container/exec"
   /\ NamesDangerousContent(last.arg.command)) =>
    /\ last.ret.status = 400
    /\ ~last.ret.reached_manager
    /\ ~exec_call.called
    /\ engine_spawn = NoCall

\* such a request has been answered
C3_Witness ==
  /\ last.op = "request"
  /\ last.arg.route = "/api/container/exec"
  /\ NamesDangerousContent(last.arg.command)
  /\ last.ret.status = 400

\* ---------------------------------------------------------------------- C4
\* C4: a request to a protected route that carries no bearer token, or one that
\* verify_token rejects, is answered 401 and does not reach the manager
\* operation behind the route.
C4_UnauthenticatedRequestRefused ==
  (/\ last.op = "request"
   /\ last.arg.authorization = "no_token" \/ verify_token(last.arg.authorization) = "None") =>
    /\ last.ret.status = 401
    /\ ~last.ret.reached_manager
    /\ ~exec_call.called

\* ---------------------------------------------------------------------- C5
\* C5: a step of the decision loop that starts a cycle while the Observer has
\* no observations leaves the decision history as it was, puts no task at the
\* call of the decision model and calls no exec_command; the loop goes to sleep.
C5_EmptyObservationsSkipCycle ==
  [][(last'.op = "_decision_loop" /\ de_is_running /\ observations = <<>>) =>
       /\ last'.arg = "skip"
       /\ decisions' = decisions
       /\ TasksAt(deTask', "await_model") = TasksAt(deTask, "await_model")
       /\ CyclesInProgress(deTask') = CyclesInProgress(deTask)
       /\ AliveTasks(deTask') = AliveTasks(deTask)
       /\ exec_call' = NoCall
       /\ engine_spawn' = NoCall]_vars

\* a running loop has just skipped a cycle for want of observations
C5_Witness ==
  /\ last.op = "_decision_loop"
  /\ last.arg = "skip"
  /\ de_is_running
  /\ observations = <<>>
  /\ decisions = <<>>

\* ---------------------------------------------------------------------- C6
\* C6: whatever the order of start_decision_loop and stop_decision_loop calls,
\* at most one decision loop task is alive and at most one scheduled cycle is
\* in progress.
C6_SingleDecisionLoop ==
  /\ AliveTasks(deTask) <= 1
  /\ CyclesInProgress(deTask) <= 1

\* ---------------------------------------------------------------------- C7
\* C7: start_monitoring while running returns false and creates no task,
\* stop_monitoring while stopped returns false, and at most one monitoring loop
\* task is alive, so that at most one observer cycle is in progress.
C7_SingleMonitoringLoop ==
  [][/\ (last'.op = "start_monitoring" /\ obs_is_running) =>
          (last'.ret = FALSE /\ obsTask' = obsTask /\ obs_is_running')
     /\ (last'.op = "stop_monitoring" /\ ~obs_is_running) =>
          (last'.ret = FALSE /\ ~obs_is_running')
     /\ AliveTasks(obsTask') <= 1
     /\ CyclesInProgress(obsTask') <= 1]_vars

\* ---------------------------------------------------------------------- C8
\* C8: once stop_monitoring or stop_decision_loop has returned true, no task of
\* the stopped loop is alive any more.
C8_StopReturnsAfterLoopEnded ==
  /\ (last.op = "stop_decision_loop" /\ last.ret = TRUE) => AliveTasks(deTask) = 0
  /\ (last.op = "stop_monitoring" /\ last.ret = TRUE) => AliveTasks(obsTask) = 0

\* ---------------------------------------------------------------------- C9
\* C9: when a step of a scheduled cycle raises (the model's command has no
\* strip()), exactly one record is appended and it is a failed record carrying
\* the error, no task of the loop ends, the task that ran the cycle sleeps, and
\* nothing is executed; and a running loop that wakes with observations
\* available, whatever the history holds, begins a cycle.
C9_FailedCycleRecordedLoopContinues ==
  [][/\ (last'.op = "model_reply" /\ last'.arg.kind = "not_string") =>
          /\ OneAppended(decisions, decisions')
          /\ Latest(decisions').kind = "failed"
          /\ Latest(decisions').error = "AttributeError"
          /\ AliveTasks(deTask') = AliveTasks(deTask)
          /\ TasksAt(deTask', "sleep") = TasksAt(deTask, "sleep") + 1
          /\ exec_call' = NoCall
     /\ (last'.op = "_decision_loop" /\ de_is_running /\ observations # <<>>) =>
          /\ last'.arg = "cycle"
          /\ AliveTasks(deTask') = AliveTasks(deTask)
          /\ TasksAt(deTask', "await_model") = TasksAt(deTask, "await_model") + 1]_vars

\* a cycle has begun after a cycle that failed
C9_Witness ==
  /\ last.op = "_decision_loop"
  /\ last.arg = "cycle"
  /\ decisions # <<>>
  /\ Latest(decisions).kind = "failed"
  /\ AliveTasks(deTask) = 1

\* --------------------------------------------------------------------- C10
\* C10: when the screen capture raises, the cycle appends exactly one record,
\* a failed one, no monitoring task ends and the task that ran the cycle
\* sleeps; a running loop that wakes performs a cycle, and every cycle it
\* performs ends with one more record.
C10_FailedCaptureRecordedLoopContinues ==
  [][/\ (last'.op = "_monitoring_loop" /\ obs_is_running /\ last'.arg = "screenshot_raises") =>
          /\ OneAppended(observations, observations')
          /\ Latest(observations').kind = "failed"
          /\ Latest(observations').error = "screenshot"
          /\ AliveTasks(obsTask') = AliveTasks(obsTask)
          /\ CyclesInProgress(obsTask') = CyclesInProgress(obsTask)
          /\ TasksAt(obsTask', "sleep") >= 1
          /\ TasksAt(obsTask', "ready") <= TasksAt(obsTask, "ready")
     /\ (last'.op = "_monitoring_loop" /\ obs_is_running) =>
          /\ last'.arg # "exit"
          /\ AliveTasks(obsTask') = AliveTasks(obsTask)
          /\ Len(observations') + CyclesInProgress(obsTask')
               = Len(observations) + CyclesInProgress(obsTask) + 1
     /\ (last'.op = "vision_reply") =>
          /\ OneAppended(observations, observations')
          /\ CyclesInProgress(obsTask') = CyclesInProgress(obsTask) - 1]_vars

\* the only monitoring loop has appended a second record after a failed capture
C10_Witness ==
  /\ Len(observations) = 2
  /\ observations[1].kind = "failed"
  /\ observations[1].error = "screenshot"
  /\ last.op \in {"_monitoring_loop", "vision_reply"}
  /\ AliveTasks(obsTask) = 1

\* --------------------------------------------------------------------- C11
\* C11: an observer cycle in which a step fails (the screen capture, the read
\* and encoding of the image, or the vision call) ends by appending exactly one
\* record, and that record is an error observation {timestamp, error}, not a
\* normal observation record.
C11_FailedStepAppendsErrorObservation ==
  [][(\/ (/\ last'.op = "_monitoring_loop"
          /\ last'.arg \in {"screenshot_raises", "read_raises"})
      \/ (last'.op = "vision_reply" /\ last'.arg = "raises")) =>
       /\ OneAppended(observations, observations')
       /\ Latest(observations').kind = "failed"]_vars

\* --------------------------------------------------------------------- C12
\* C12: when the decision model's reply is not valid JSON, or is valid JSON but
\* not an object, the cycle appends exactly one decision record whose decision
\* has an empty command and carries the parse error and the raw model text,
\* and exec_command is not called.
C12_UnparsableReplyRecordedDegraded ==
  [][(last'.op = "model_reply" /\ last'.arg.kind \in {"not_json", "not_object"}) =>
       /\ OneAppended(decisions, decisions')
       /\ Latest(decisions').kind = "decision"
       /\ Latest(decisions').decision.command = <<>>
       /\ Latest(decisions').decision.reasoning \in {"json_error", "exception"}
       /\ Latest(decisions').decision.raw_response
       /\ exec_call' = NoCall
       /\ engine_spawn' = NoCall]_vars

\* --------------------------------------------------------------------- C13
\* the reply is a JSON object whose command, once stripped, is not empty and is
\* accepted by the validator
AcceptedReply(reply) ==
  /\ reply.kind = "string"
  /\ Strip(reply.command) # <<>>
  /\ ValidateTable[Strip(reply.command)].ok

\* C13 as stated: in a cycle with at least one observation, a reply with a
\* non-empty command the validator accepts leads to one call of exec_command
\* with exactly the command string of the reply.
C13_ExecReceivesReplyCommandVerbatim ==
  [][(last'.op = "model_reply" /\ AcceptedReply(last'.arg)) =>
       exec_call' = Call(last'.arg.command)]_vars

\* C13, amended: in a cycle with at least one observation, a reply with a
\* non-empty command the validator accepts leads to one call of exec_command
\* with that command stripped of surrounding whitespace and appends nothing
\* yet; when that exec succeeds exactly one decision record is appended, its
\* execution_result.success is true and names the command that was run, and
\* exec_command is not called again.
C13_AcceptedCommandRunOnceAndRecorded ==
  [][/\ (last'.op = "model_reply" /\ AcceptedReply(last'.arg)) =>
          /\ exec_call' = Call(Strip(last'.arg.command))
          /\ engine_spawn' = Call(Strip(last'.arg.command))
          /\ decisions' = decisions
          /\ TasksAt(deTask', "await_exec") = TasksAt(deTask, "await_exec") + 1
          /\ TasksAt(deTask', "await_model") = TasksAt(deTask, "await_model") - 1
     /\ (last'.op = "exec_return" /\ last'.arg = "exit_0") =>
          /\ OneAppended(decisions, decisions')
          /\ Latest(decisions').kind = "decision"
          /\ Latest(decisions').nobs >= 1
          /\ Latest(decisions').execution_result.success = TRUE
          /\ Latest(decisions').execution_result.tag = "executed"
          /\ Latest(decisions').execution_result.command
               = Strip(Latest(decisions').decision.command)
          /\ exec_call' = NoCall
          /\ TasksAt(deTask', "await_exec") = TasksAt(deTask, "await_exec") - 1]_vars

\* a cycle has run ' pwd ' as 'pwd', the exec succeeded and the record is there
C13_Witness ==
  /\ last.op = "exec_return"
  /\ last.arg = "exit_0"
  /\ decisions # <<>>
  /\ Latest(decisions).decision.command = CmdPwdPadded
  /\ Latest(decisions).execution_result = Result(TRUE, "executed", CmdPwd)

\* --------------------------------------------------------------------- C14
\* every occurrence of one of ; & | ` $ ( ) in the command is an '&' with
\* another '&' next to it
OnlyConjunctions(command) ==
  \A i \in 1..Len(command) :
    (\E k \in DOMAIN dangerous_chars : command[i] = dangerous_chars[k]) =>
      /\ command[i] = "&"
      /\ \/ (i > 1 /\ command[i - 1] = "&")
         \/ (i < Len(command) /\ command[i + 1] = "&")

\* C14: _validate_command accepts a non-empty command only if it matches no
\* dangerous pattern, matches an allow-list pattern, does not contain '..',
\* and every occurrence of ; & | ` $ ( ) in it is part of an '&&' (a lone '&'
\* is rejected even when the command also contains '&&').
C14_AcceptedOnlyIfAllRulesHold ==
  (/\ last.op = "_validate_command"
   /\ Strip(last.arg) # <<>>
   /\ last.ret.ok) =>
    LET command == Strip(last.arg)
    IN /\ ~(\E i \in DOMAIN dangerous_commands : re_search(dangerous_commands[i], command))
       /\ \E i \in DOMAIN allowed_command_patterns :
            re_match(allowed_command_patterns[i], command)
       /\ ~Contains(command, <<".", ".">>)
       /\ OnlyConjunctions(command)

\* --------------------------------------------------------------------- C15
\* C15: for the engine-client pool and the HTTP-session pool alike, at every
\* moment the members in the queue and the members held by scopes in progress
\* are together exactly the members of the pool, each once; and when no scope
\* holds a member (every acquisition has exited, by return, by an exception in
\* the body or by cancellation) the available count is the pool's total, the
\* value it had after initialisation.
C15_PoolNeverLeaks ==
  \A pool \in Pools :
    /\ Len(available(pool)) + HeldCount(pool) = Cardinality(total(pool))
    /\ {available(pool)[i] : i \in 1..Len(available(pool))} \cup CheckedOut(pool) = total(pool)
    /\ \A i, j \in 1..Len(available(pool)) :
         available(pool)[i] = available(pool)[j] => i = j
    /\ HeldCount(pool) = 0 => Len(available(pool)) = Cardinality(total(pool))

\* the last scope in progress has just ended by an exception or a cancellation
\* and its pool is whole again
C15_Witness ==
  /\ last.op = "exit_scope"
  /\ last.ret \in {"raises", "cancelled"}
  /\ acquisitions = EmptyBag
  /\ Cardinality(total(last.arg)) >= 1
  /\ Len(available(last.arg)) = Cardinality(total(last.arg))
  /\ available(last.arg) # [i \in 1..Len(available(last.arg)) |-> i]

\* --------------------------------------------------------------------- C16
\* C16: when the Container Manager holds a Connection Pool Manager whose
\* engine-client pool is unavailable, is_container_running returns true
\* exactly when the engine reports the container as running, and takes no
\* pooled client.
C16_UnavailablePoolFallsBack ==
  (/\ last.op = "is_container_running"
   /\ last.arg.connection_pool
   /\ ~has_docker_pool) =>
    /\ last.ret = (last.arg.engine = "running")
    /\ HeldCount("docker") = 0

\* --------------------------------------------------------------------- C17
\* a set of the key was asked for and its time to live is not over
LiveRequest(key) == latest_set[key] # NoRequest /\ now < latest_set[key].expires_at

\* C17: whatever sets and deletes of a key came before, remote failures
\* included, get(key) returns the value of the most recent set while it has
\* not expired (unless the sweep evicted it), absent after a delete or an
\* expiry, and never the value of an earlier set.
C17_GetReturnsLatestSet ==
  (last.op = "get") =>
    LET key == last.arg
    IN /\ (LiveRequest(key) /\ ~latest_set[key].evicted) => last.ret = latest_set[key].value
       /\ ~LiveRequest(key) => last.ret = None
       /\ last.ret \in {None, latest_set[key].value}

Expired(entry) == ~(entry.expires_at > now)

\* C19: after a sweep of the local tier no expired entry remains, the count is
\* at most the cap, every unexpired entry it evicted was created no later than
\* every entry that survives, and it evicted unexpired entries only until the
\* cap was met.
C19_SweepRemovesExpiredAndOldestToCap ==
  [][(last'.op = "_cleanup_memory_cache") =>
       LET kept == {k \in CacheKeys : memory_cache'[k] # NoEntry}
           gone == {k \in CacheKeys : memory_cache[k] # NoEntry /\ memory_cache'[k] = NoEntry
                                       /\ ~Expired(memory_cache[k])}
       IN /\ \A k \in kept : ~Expired(memory_cache'[k])
          /\ Cardinality(kept) <= max_memory_cache
          /\ \A g \in gone, k \in kept : memory_cache[g].created_at <= memory_cache[k].created_at
          /\ gone # {} => Cardinality(kept) = max_memory_cache]_vars

\* --------------------------------------------------------------------- C20
\* C20: a call of a decorated function made while an earlier call with the
\* same arguments has cached its result within the time to live, or is still
\* in progress, does not execute the wrapped function, whatever the function
\* returned.
C20_RepeatedCallNotExecuted ==
  [][(/\ last'.op = "cached_call"
      /\ \/ (/\ LiveRequest(cache_key(last'.arg))
             /\ ~latest_set[cache_key(last'.arg)].evicted)
         \/ \E call \in BagToSet(cachedCalls) : call.args = last'.arg) =>
       ~last'.ret.executed]_vars

\* the sampling loops that have not terminated, and those still sampling
LoopsNotDone == {id \in 1..MaxTasks : pm_tasks[id] \in {"alive", "cancelling"}}
LoopsSampling == {id \in 1..MaxTasks : pm_tasks[id] = "alive"}

\* C21: a start_monitoring call while running changes nothing; stop_monitoring
\* returns only once the loop it cancelled has terminated; at most one loop is
\* sampling at any time, at most one has not terminated whenever no stop is
\* still waiting, and none is left once the monitor is stopped and every stop
\* has returned.
C21_OneSamplingLoopAndStopAwaitsIt ==
  /\ [](Cardinality(LoopsSampling) <= 1)
  /\ [](pm_stops = EmptyBag => Cardinality(LoopsNotDone) <= 1)
  /\ [](~pm_is_monitoring => LoopsSampling = {})
  /\ [](~pm_is_monitoring /\ pm_stops = EmptyBag => LoopsNotDone = {})
  /\ [][last'.op = "start_monitoring" /\ pm_is_monitoring => UNCHANGED monitorVars]_vars
  /\ [][last'.op = "stop_monitoring" /\ last'.ret = "returned" /\ last'.arg # 0
        => pm_tasks'[last'.arg] = "done"]_vars

\* a stop has returned after waiting for the loop of a restarted monitor
C21_Witness ==
  /\ last = Step("stop_monitoring", 2, "returned")
  /\ pm_tasks[1] = "done"
  /\ pm_tasks[2] = "done"
  /\ ~pm_is_monitoring
  /\ pm_stops = EmptyBag

\* C22: every Container Manager operation that waits for an engine process
\* waits under a timeout, so that a process that never exits is killed and the
\* operation returns a timeout failure.
C22_EveryEngineWaitHasATimeout ==
  \A call \in BagToSet(cm_calls) : timed(call.verb)

\* the options the launch is expected to carry
SecurityProfile ==
  {"--read-only", "--cap-drop", "--cap-add", "--security-opt", "--pids-limit",
   "--cpu-quota", "--cpu-period", "--memory", "--memory-swap"}

\* C23: every "docker run" start_container issues carries the security profile
\* and the resource limits.
C23_LaunchCarriesSecurityProfile ==
  engine_command.verb = "run" => SecurityProfile \subseteq engine_command.options

\* C24: when is_container_running reports the container as running,
\* start_container returns success and issues no "docker run".
C24_RunningContainerIsNotLaunched ==
  [][last'.op = "start_container" /\ last'.ret.running
        => /\ last'.ret = cm_result(TRUE, "already_running", TRUE, FALSE)
           /\ engine_command'.verb # "run"]_vars

\* start_container has returned "already running" after the command-line query
C24_Witness ==
  /\ last = Step("start_container", "none", cm_result(TRUE, "already_running", TRUE, FALSE))
  /\ ~cm_connection_pool

\* the stops and closes that must have completed: those of the components
\* held, but for the ones that failed themselves
MustComplete(held, failing) == {c \in (Closers \cap held) \ failing : has_close(c)}

\* C25: whichever stop or close fails during cleanup_components, the failure
\* is not propagated and every other component's stop or close completes.
C25_ShutdownToleratesAnyFailure ==
  last.op = "cleanup_components"
    => /\ last.ret.raised = "none"
       /\ MustComplete(components, last.arg.failing) \subseteq last.ret.completed

\* C26: a failed startup reports the failure of the step that failed,
\* constructs nothing later, and has cleaned up every component constructed
\* so far.
C26_FailedStartupCleansUpAndReports ==
  (last.op = "initialize_components" /\ init_status = "failed")
    => /\ last.ret.raised = last.arg.step.component
       /\ MustComplete(components, last.arg.failing) \subseteq cleaned
       /\ components \subseteq {Startup[i].component : i \in 1..init_pc}

\* C27: start_injection does nothing when the manager is disabled or running;
\* there is never more than one job scheduled, never more than one scheduler
\* thread while the manager runs, and a stop_injection that has returned
\* leaves the manager stopped with no job scheduled.
C27_OneJobOneThreadWhileRunning ==
  /\ [](schedule_jobs <= 1)
  /\ [](wi_is_running => BagCardinality(wi_threads) <= 1)
  /\ []((last.op = "stop_injection" /\ last.ret = "stopped")
          => ~wi_is_running /\ schedule_jobs = 0)
  /\ [][(last'.op = "start_injection" /\ (~wi_enabled \/ wi_is_running))
          => UNCHANGED schedulerVars]_vars

\* no word occurs twice
NoDuplicates(words) ==
  \A i, j \in 1..Len(words) : words[i] = words[j] => i = j

\* C29: the vocabulary never holds a word twice; add_vocabulary of an empty
\* word, or of a word that is present once trimmed, returns false and changes
\* nothing; remove_vocabulary of an absent word returns false and changes
\* nothing.
C29_VocabularyHasNoDuplicates ==
  /\ [](NoDuplicates(vocabulary))
  /\ [][(last'.op = "add_vocabulary"
           /\ (Strip(last'.arg) = <<>> \/ InList(Strip(last'.arg), vocabulary)))
          => last'.ret = FALSE /\ UNCHANGED vocabularyVars]_vars
  /\ [][(last'.op = "remove_vocabulary" /\ ~InList(last'.arg, vocabulary))
          => last'.ret = FALSE /\ UNCHANGED vocabularyVars]_vars

\* an untrimmed spelling of a word that is present has been refused
C29_Witness ==
  /\ last = Step("add_vocabulary", <<" ", "a">>, FALSE)
  /\ vocabulary = << <<"b">>, <<"a">> >>

\* the entries appended since the latest clear_logs, and the most recent of them
Appended == [i \in 1..(wi_appended - wi_cleared) |-> wi_cleared + i]
MostRecent(limit) ==
  SubSeq(Appended, IF Len(Appended) > limit THEN Len(Appended) - limit + 1 ELSE 1,
         Len(Appended))

\* what the mutations made so far leave in the log when run one after another
SerialLog ==
  IF Len(Appended) > max_log_entries THEN LastSlice(Appended, max_log_entries) ELSE Appended

\* C28: mutations of the log by the scheduler thread and by handlers exclude
\* each other: once none is in progress the log is what running them one
\* after the other leaves, so no appended entry is lost.
C28_OverlappingMutationsAreSerial ==
  (\A thread \in LogThreads : log_ops[thread].pc = "idle") => injection_logs = SerialLog

\* C30: after every persist, for every max_log_entries >= 0, the log in memory
\* and the log in the file hold at most max_log_entries entries, the most
\* recent ones.
C30_PersistKeepsTheMostRecent ==
  (last.op = "_save_logs" /\ last.ret = "persisted")
    => /\ Len(injection_logs) <= max_log_entries
       /\ injection_logs = MostRecent(max_log_entries)
       /\ log_file = injection_logs

\* --------------------------------------------------------------------- C31
\* the observations a call of manual_decision is to work on: the caller's when
\* given, else the five latest of the Observer
ManualObservations(arg) ==
  IF arg.given THEN arg.list
  ELSE SubSeq(observations, IF Len(observations) > 5 THEN Len(observations) - 4 ELSE 1,
              Len(observations))

\* C31: manual_decision works on the caller's observations when they are given
\* and on the latest 5 of the Observer otherwise; with no observation at all it
\* returns a failure and calls neither the decision model nor exec_command.
C31_ManualDecisionObservations ==
  (last.op = "manual_decision") =>
    IF ManualObservations(last.arg.observations) = <<>>
    THEN /\ last.ret.success = FALSE
         /\ last.ret.error = "no_observations"
         /\ last.arg.reply = NoReply
         /\ ~exec_call.called
    ELSE /\ last.arg.reply # NoReply
         /\ last.arg.prompted = ManualObservations(last.arg.observations)
         /\ last.ret.success =>
              last.ret.observations_used = Len(ManualObservations(last.arg.observations))

\* a call without observations over a history of more than five records
C31_Witness ==
  /\ last.op = "manual_decision"
  /\ ~last.arg.observations.given
  /\ Len(observations) > 5
  /\ Len(last.arg.prompted) = 5
  /\ last.ret.success

\* C32: get_health_status reports healthy exactly when the four checks pass,
\* and a check whose sample buffer is empty passes: response_time and
\* error_rate with no response time recorded, cpu_usage and memory_usage with
\* no sample taken.
C32_HealthyIffChecksAndEmptyPasses ==
  (last.op = "get_health_status") =>
    /\ last.ret.healthy <=> /\ last.ret.checks.response_time
                            /\ last.ret.checks.cpu_usage
                            /\ last.ret.checks.memory_usage
                            /\ last.ret.checks.error_rate
    /\ response_times = <<>> => last.ret.checks.response_time /\ last.ret.checks.error_rate
    /\ cpu_usage = <<>> => last.ret.checks.cpu_usage
    /\ memory_usage = <<>> => last.ret.checks.memory_usage

\* C33: GET /health answers 200 when the verdict is healthy and 503 when it
\* is not.
C33_HealthStatusCode ==
  (last.op = "health_check") =>
    last.ret.status_code = IF last.ret.body.healthy THEN 200 ELSE 503

\* C40: with every error recorded by the decorator, the error_rate that
\* get_health_status reports is never above 1.
C40_ErrorRateAtMostOne ==
  (last.op = "get_health_status") =>
    last.ret.error_rate.errors <= last.ret.error_rate.requests

\* C34: the response to a request that fails validation, that is refused for
\* want of authentication (an HTTPException) or whose handler raises an
\* unexpected exception is the JSON envelope with status, error_code and
\* message; create_error_response replaces a code it does not know by
\* INTERNAL_ERROR.
C34_ErrorsAreEnveloped ==
  /\ (last.op = "request") =>
       /\ last.ret.envelope
       /\ last.ret.status = "error"
       /\ last.ret.error_code \in DOMAIN ERROR_CODES
       /\ last.ret.message # ""
  /\ (last.op = "create_error_response" /\ last.arg.error_code \notin DOMAIN ERROR_CODES) =>
       /\ last.ret.envelope
       /\ last.ret.error_code = "INTERNAL_ERROR"

\* C35: a streaming chat-completion response that has ended, however the
\* upstream stream ended, has 'data: [DONE]' as its last frame and nowhere else.
C35_StreamEndsWithDone ==
  (sse.state = "closed") =>
    /\ sse.frames # <<>>
    /\ sse.frames[Len(sse.frames)] = DoneFrame
    /\ \A i \in 1..(Len(sse.frames) - 1) : sse.frames[i] # DoneFrame

\* C38: under every interleaving of chat-completion requests, a response is
\* written to the cache by a non-streaming request only, under the key made of
\* that request's own model and messages, and it is the response to them; a
\* streaming request neither reads nor writes the cache.
C38_CacheKeyIsTheRequestsOwn ==
  /\ [](last.op = "cache_set" =>
          /\ ~last.arg.stream
          /\ last.arg.key = <<"chat_completion", last.arg.model, last.arg.messages>>
          /\ last.ret.result = ChatResult(last.arg.model, last.arg.messages)
          /\ chat_cache[last.arg.key] = last.ret.result)
  /\ [](last.op = "cache_get" =>
          /\ ~last.arg.stream
          /\ last.arg.key = <<"chat_completion", last.arg.model, last.arg.messages>>
          /\ last.ret.kind = "cached" =>
               last.ret.result = ChatResult(last.arg.model, last.arg.messages))
  /\ [][(last'.op = "chat_completions" /\ last'.arg.stream) =>
          /\ UNCHANGED chat_cache
          /\ chat_requests'[last'.arg.request].pc = "idle"]_vars

\* two requests in progress at once, for different models, and the second of
\* them has just written its response to the cache
C38_Witness ==
  /\ last.op = "cache_set"
  /\ \E id \in 1..MaxRequests :
       /\ chat_requests[id].pc \in {"upstream", "set"}
       /\ chat_requests[id].model # last.arg.model
       /\ chat_requests[id].messages = last.arg.messages

\* the last min(limit, length) records of a history, in order
LastRecords(history, limit) ==
  SubSeq(history, IF Len(history) > limit THEN Len(history) - limit + 1 ELSE 1, Len(history))

\* C36: for every history and every limit >= 0, get_recent_observations and
\* get_recent_decisions return the last min(limit, length) records of the
\* history in order, and never more than limit records.
C36_RecentReturnsTheLastLimit ==
  /\ (last.op = "get_recent_observations") =>
       /\ Len(last.ret) <= last.arg
       /\ last.ret = LastRecords(observations, last.arg)
  /\ (last.op = "get_recent_decisions") =>
       /\ Len(last.ret) <= last.arg
       /\ last.ret = LastRecords(decisions, last.arg)

\* C37: AIPlanner.plan in remote mode, or in auto mode with a configured key,
\* returns the offline plan and raises nothing whenever the call of the model
\* fails.
C37_RemoteFailureFallsBackOffline ==
  (/\ last.op = "plan"
   /\ last.arg.mode = "remote" \/ (last.arg.mode = "auto" /\ last.arg.api_key)
   /\ last.arg.outcome \in {"raises", "no_choices"})
    => last.ret = _offline_plan(last.arg.memories)

\* the loops, the thread and the tasks the service started that have not ended
StillRunning ==
  [observer |-> obsTask # NoTasks,
   decision |-> deTask # NoTasks,
   whisper |-> wi_threads # EmptyBag,
   performance |-> \E id \in 1..MaxTasks : pm_tasks[id] \in {"alive", "cancelling"},
   sweep |-> sweep_tasks > 0]

\* C39: once the shutdown of the service has completed, the Observer loop, the
\* Decision loop, the Whisper scheduler thread, the Performance sampling loop
\* and the cache sweep task have all terminated.
C39_NothingRunsAfterShutdown ==
  init_status = "shut_down" =>
    StillRunning = [observer |-> FALSE, decision |-> FALSE, whisper |-> FALSE,
                    performance |-> FALSE, sweep |-> FALSE]


====
